---------------------------- MODULE Spec2Model ----------------------------
(***************************************************************************)
(* A model of the distributed_processor compiler's IR pipeline             *)
(* (python/distproc/ir/passes.py, python/distproc/ir.py): the program is   *)
(* flattened, split into basic blocks, scoped, its gates resolved, its     *)
(* control-flow graph generated, its virtual-Z gates folded, its FPROC     *)
(* holds inserted, and it is scheduled, linted and lowered.                *)
(*                                                                         *)
(* Names.  Every Python string that the code takes apart is modelled as    *)
(* the sequence of its parts: a block name or label is the sequence of     *)
(* the tokens str.split('_') gives ('true_end_0' is <<"true","end","0">>), *)
(* a channel, qubit, frequency or FPROC-channel name is the sequence of    *)
(* its '.'-separated parts ('Q0.qdrv' is <<"Q0","qdrv">>, 'Q0' is          *)
(* <<"Q0">>).  String formatting is concatenation of such sequences.       *)
(***************************************************************************)
EXTENDS Integers, Sequences, FiniteSets, TLC

VARIABLES
    pc,               \* the pass the compiler is in (position in run_ir_passes)
    nodes,            \* control_flow_graph.nodes: block records in insertion order
    edges,            \* control_flow_graph edges: a set of <<from, to>> block names
    loops,            \* ir_prog.loops: loop name -> _Loop record
    done,             \* names of the blocks the running pass has walked
    cur,              \* name of the block being processed, or NoName
    ii,               \* index of the instruction being processed in that block
    cur_t,            \* Schedule: the per-channel pulse cursor (cur_t_global)
    last_instr_end_t, \* Schedule/LintSchedule: per-core last-issue time
    asm,              \* the lowered per-core instruction streams
    err,              \* the exception that aborted the compilation, or "none"
    _vars,            \* IRProgram._vars: the declared variables, by name
    _freqs,           \* IRProgram._freqs: the registered frequencies, by name
    source,           \* the program the IRProgram was constructed from
    file,             \* the file a compiled program is saved to and loaded from
    loaded,           \* what loading the file returned
    _dest_channels,   \* CoreScoper._dest_channels
    _proc_grouping,   \* the grouping templates a CoreScoper is constructed with
    proc_groupings,   \* CoreScoper.proc_groupings: channel -> tuple of the core's channels
    hw_zphase_bindings \* the phase bindings of the IRProgram: frequency name -> variable name

vars == <<pc, nodes, edges, loops, done, cur, ii, cur_t, last_instr_end_t, asm, err,
          _vars, _freqs, source, file, loaded, _dest_channels, _proc_grouping, proc_groupings,
          hw_zphase_bindings>>

-----------------------------------------------------------------------------
(* Bounds of the model *)

\* total number of statements (simple or composite, at any depth) of an input program
MaxSize == 4
\* total number of statements of a program whose virtual-Z gates are folded
VZSize == 3
\* total number of statements of a user-scheduled program that is linted
LintSize == 3
\* the latest start or end time, in clock periods, a user gives a pulse or an idle
MaxStart == 12
\* total number of statements of a program that is scheduled
SchedSize == 2
\* statements of a program that is compiled, saved and loaded
SaveSize == 1
\* the width in ns of the longest pulse of a program that is scheduled
MaxWidth == 8
\* the pulse width of the gates of the golden schedule ranges over 1..MaxGateWidth ns
MaxGateWidth == 10
\* statements of a program whose flattening is checked
FlatSize == 3
\* statements, after its declarations, of a program that is scoped and rescoped
ScopeSize == 2
\* instructions of a program whose frequencies are registered
FreqSize == 3

-----------------------------------------------------------------------------
(* Timing configuration (hwconfig.FPGAConfig as the compiler tests set it) *)

\* times are in nanoseconds, the clock period is 2 ns
fpga_clk_period == 2
alu_instr_clks == 2
jump_cond_clks == 3
jump_fproc_clks == 4
pulse_load_clks == 3
\* Schedule._start_nclks
start_nclks == 5
\* the hold of every configured FPROC channel
FPROC_MEAS_CLKS == 64

-----------------------------------------------------------------------------
(* Generic helpers *)

Max(a, b) == IF a >= b THEN a ELSE b

RECURSIVE SetMax(_)
SetMax(S) ==
    IF S = {} THEN 0
    ELSE LET x == CHOOSE y \in S : TRUE
         IN  IF S = {x} THEN x ELSE Max(x, SetMax(S \ {x}))

Last(s) == s[Len(s)]

Range(s) == {s[k] : k \in 1..Len(s)}

RECURSIVE Concat(_)
Concat(ss) == IF ss = <<>> THEN <<>> ELSE Head(ss) \o Concat(Tail(ss))

RemoveAt(s, k) == SubSeq(s, 1, k - 1) \o SubSeq(s, k + 1, Len(s))

\* str(n) for the indices the flattener and the block builder format into names
IntStr(n) == <<"0", "1", "2", "3", "4", "5", "6", "7", "8", "9", "10", "11", "12">>[n + 1]

-----------------------------------------------------------------------------
(* Instruction model (ir_instructions.py) *)

NoName == <<"None">>
NoScope == {NoName}       \* scope = None
NoTime == -1              \* start_time / end_time / delta_t = None

\* an int | str operand: an immediate value or a variable name
IntOp(n) == [isvar |-> FALSE, ival |-> n, vname |-> "None"]
VarOp(v) == [isvar |-> TRUE, ival |-> 0, vname |-> v]

\* every attribute any instruction class has, at its default
Blank ==
    [name |-> "None", scope |-> NoScope, qubit |-> NoScope, dest |-> NoName,
     freq |-> NoName, phase |-> IntOp(0), twidth |-> 0, start_time |-> NoTime,
     t |-> 0, var |-> "None", lhs |-> IntOp(0), rhs |-> "None", out |-> "None",
     alu_cond |-> "None", cond_lhs |-> IntOp(0), cond_rhs |-> "None",
     func_id |-> NoName, jump_label |-> NoName, jump_type |-> "None",
     label |-> NoName, loop_label |-> NoName, ref_chans |-> {}, nclks |-> 0,
     end_time |-> NoTime, true |-> <<>>, false |-> <<>>, body |-> <<>>,
     op |-> "None", freqname |-> NoName,
     \* the variable whose scope set is the very object instr.scope refers to, if any
     scope_is |-> "None"]

\* a gate on qubit q; tw is the pulse width its modi gives the gate's pulses
Gate(gname, q, tw) == [Blank EXCEPT !.name = gname, !.qubit = {q}, !.twidth = tw]
Pulse(fr, ph, tw, d) ==
    [Blank EXCEPT !.name = "pulse", !.freq = fr, !.phase = IntOp(ph), !.twidth = tw, !.dest = d]
TimedPulse(fr, ph, tw, d, st) == [Pulse(fr, ph, tw, d) EXCEPT !.start_time = st]
VirtualZ(q, ph) ==
    [Blank EXCEPT !.name = "virtual_z", !.qubit = {q}, !.freq = q \o <<"freq">>,
                  !.phase = IntOp(ph)]
Barrier(q, sc) == [Blank EXCEPT !.name = "barrier", !.qubit = q, !.scope = sc]
Delay(tt, sc) == [Blank EXCEPT !.name = "delay", !.t = tt, !.scope = sc]
JumpFproc(ac, cl, fid, sc, jl) ==
    [Blank EXCEPT !.name = "jump_fproc", !.alu_cond = ac, !.cond_lhs = cl, !.func_id = fid,
                  !.scope = sc, !.jump_label = jl]
JumpCond(cl, ac, cr, sc, jl, jt) ==
    [Blank EXCEPT !.name = "jump_cond", !.alu_cond = ac, !.cond_lhs = cl, !.cond_rhs = cr,
                  !.scope = sc, !.jump_label = jl, !.jump_type = jt]
JumpI(sc, jl) == [Blank EXCEPT !.name = "jump_i", !.scope = sc, !.jump_label = jl]
JumpLabel(l, sc) == [Blank EXCEPT !.name = "jump_label", !.label = l, !.scope = sc]
LoopEnd(sc, ll) == [Blank EXCEPT !.name = "loop_end", !.scope = sc, !.loop_label = ll]
ReadFproc(fid, v, sc) ==
    [Blank EXCEPT !.name = "read_fproc", !.func_id = fid, !.var = v, !.scope = sc]
SetVar(val, v, sc) ==
    [Blank EXCEPT !.name = "set_var", !.lhs = IntOp(val), !.var = v, !.scope = sc]
Declare(v, sc) == [Blank EXCEPT !.name = "declare", !.var = v, !.scope = sc]
Alu(o, l, r, ou, sc) ==
    [Blank EXCEPT !.name = "alu", !.op = o, !.lhs = l, !.rhs = r, !.out = ou, !.scope = sc]
\* a frequency given as a number is its own key in the frequency table
FreqKey(f) == <<IntStr(f)>>
DeclareFreq(f, fname, sc) ==
    [Blank EXCEPT !.name = "declare_freq", !.freq = FreqKey(f), !.freqname = fname, !.scope = sc]
Hold(n, refs, sc) == [Blank EXCEPT !.name = "hold", !.nclks = n, !.ref_chans = refs, !.scope = sc]
Idle(et, sc) == [Blank EXCEPT !.name = "idle", !.end_time = et, !.scope = sc]
BranchFproc(ac, cl, fid, sc, tr, fa) ==
    [Blank EXCEPT !.name = "branch_fproc", !.alu_cond = ac, !.cond_lhs = cl, !.func_id = fid,
                  !.scope = sc, !.true = tr, !.false = fa]
BranchVar(ac, cl, cr, sc, tr, fa) ==
    [Blank EXCEPT !.name = "branch_var", !.alu_cond = ac, !.cond_lhs = cl, !.cond_rhs = cr,
                  !.scope = sc, !.true = tr, !.false = fa]
Loop(cl, ac, cr, sc, bd) ==
    [Blank EXCEPT !.name = "loop", !.alu_cond = ac, !.cond_lhs = cl, !.cond_rhs = cr,
                  !.scope = sc, !.body = bd]

\* hasattr(instr, 'scope'), hasattr(instr, 'qubit'), hasattr(instr, 'dest')
HasScopeAttr(instr) == instr.name # "pulse"
HasQubitAttr(instr) ==
    instr.name \notin {"pulse", "jump_fproc", "jump_cond", "jump_i", "jump_label", "loop_end",
                       "read_fproc", "alu_fproc", "declare", "declare_freq", "alu", "set_var",
                       "hold", "idle", "branch_fproc", "branch_var", "loop"}
HasDestAttr(instr) == instr.name = "pulse"

-----------------------------------------------------------------------------
(* FlattenProgram (passes.py) *)

RECURSIVE FlattenFrom(_, _, _, _)
\* _flatten_control_flow with the conditional jump of a branch always aimed at the
\* true label
FlattenFromTrueTarget(program, i, branchind, label_prefix) ==
    IF i > Len(program) THEN <<>>
    ELSE
      LET statement == program[i] IN
      IF statement.name \in {"branch_fproc", "branch_var"} THEN
        LET flattened_trueblock == FlattenFrom(statement.true, 1, 0, <<"true">> \o label_prefix)
            flattened_falseblock == FlattenFrom(statement.false, 1, 0, <<"false">> \o label_prefix)
            jump_label_false == label_prefix \o <<"false", IntStr(branchind)>>
            jump_label_end == label_prefix \o <<"end", IntStr(branchind)>>
            jump_label_true == label_prefix \o <<"true", IntStr(branchind)>>
            target == jump_label_true
            jump_statement ==
                IF statement.name = "branch_fproc"
                THEN JumpFproc(statement.alu_cond, statement.cond_lhs, statement.func_id,
                               statement.scope, target)
                ELSE JumpCond(statement.cond_lhs, statement.alu_cond, statement.cond_rhs,
                              statement.scope, target, "None")
        IN  <<jump_statement>>
            \o <<JumpLabel(jump_label_false, statement.scope)>>
            \o flattened_falseblock
            \o <<JumpI(statement.scope, jump_label_end)>>
            \o (IF Len(flattened_trueblock) > 0
                THEN <<JumpLabel(jump_label_true, statement.scope)>> \o flattened_trueblock
                ELSE <<>>)
            \o <<JumpLabel(jump_label_end, statement.scope)>>
            \o FlattenFrom(program, i + 1, branchind + 1, label_prefix)
      ELSE IF statement.name = "loop" THEN
        LET flattened_body == FlattenFrom(statement.body, 1, 0, <<"loop", "body">> \o label_prefix)
            loop_label == label_prefix \o <<"loop", IntStr(branchind), "loopctrl">>
        IN  <<JumpLabel(loop_label, statement.scope)>>
            \o <<Barrier(statement.scope, NoScope)>>
            \o flattened_body
            \o <<LoopEnd(statement.scope, loop_label)>>
            \o <<JumpCond(statement.cond_lhs, statement.alu_cond, statement.cond_rhs,
                          statement.scope, loop_label, "loopctrl")>>
            \o FlattenFrom(program, i + 1, branchind + 1, label_prefix)
      ELSE IF statement.name = "alu_op" THEN
        FlattenFrom(program, i + 1, branchind, label_prefix)
      ELSE <<statement>> \o FlattenFrom(program, i + 1, branchind, label_prefix)

\* _flatten_control_flow with the jump that closes a loop left an ordinary jump
FlattenFromPlainLoop(program, i, branchind, label_prefix) ==
    IF i > Len(program) THEN <<>>
    ELSE
      LET statement == program[i] IN
      IF statement.name \in {"branch_fproc", "branch_var"} THEN
        LET flattened_trueblock == FlattenFrom(statement.true, 1, 0, <<"true">> \o label_prefix)
            flattened_falseblock == FlattenFrom(statement.false, 1, 0, <<"false">> \o label_prefix)
            jump_label_false == label_prefix \o <<"false", IntStr(branchind)>>
            jump_label_end == label_prefix \o <<"end", IntStr(branchind)>>
            jump_label_true == label_prefix \o <<"true", IntStr(branchind)>>
            target == IF Len(flattened_trueblock) > 0 THEN jump_label_true ELSE jump_label_end
            jump_statement ==
                IF statement.name = "branch_fproc"
                THEN JumpFproc(statement.alu_cond, statement.cond_lhs, statement.func_id,
                               statement.scope, target)
                ELSE JumpCond(statement.cond_lhs, statement.alu_cond, statement.cond_rhs,
                              statement.scope, target, "None")
        IN  <<jump_statement>>
            \o <<JumpLabel(jump_label_false, statement.scope)>>
            \o flattened_falseblock
            \o <<JumpI(statement.scope, jump_label_end)>>
            \o (IF Len(flattened_trueblock) > 0
                THEN <<JumpLabel(jump_label_true, statement.scope)>> \o flattened_trueblock
                ELSE <<>>)
            \o <<JumpLabel(jump_label_end, statement.scope)>>
            \o FlattenFrom(program, i + 1, branchind + 1, label_prefix)
      ELSE IF statement.name = "loop" THEN
        LET flattened_body == FlattenFrom(statement.body, 1, 0, <<"loop", "body">> \o label_prefix)
            loop_label == label_prefix \o <<"loop", IntStr(branchind), "loopctrl">>
        IN  <<JumpLabel(loop_label, statement.scope)>>
            \o <<Barrier(statement.scope, NoScope)>>
            \o flattened_body
            \o <<LoopEnd(statement.scope, loop_label)>>
            \o <<JumpCond(statement.cond_lhs, statement.alu_cond, statement.cond_rhs,
                          statement.scope, loop_label, "None")>>
            \o FlattenFrom(program, i + 1, branchind + 1, label_prefix)
      ELSE IF statement.name = "alu_op" THEN
        FlattenFrom(program, i + 1, branchind, label_prefix)
      ELSE <<statement>> \o FlattenFrom(program, i + 1, branchind, label_prefix)

\* _flatten_control_flow: the statements program[i..], with branchind the number of
\* branches and loops already seen at this level
FlattenFrom(program, i, branchind, label_prefix) ==
    IF i > Len(program) THEN <<>>
    ELSE
      LET statement == program[i] IN
      IF statement.name \in {"branch_fproc", "branch_var"} THEN
        LET flattened_trueblock == FlattenFrom(statement.true, 1, 0, <<"true">> \o label_prefix)
            flattened_falseblock == FlattenFrom(statement.false, 1, 0, <<"false">> \o label_prefix)
            jump_label_false == label_prefix \o <<"false", IntStr(branchind)>>
            jump_label_end == label_prefix \o <<"end", IntStr(branchind)>>
            jump_label_true == label_prefix \o <<"true", IntStr(branchind)>>
            target == IF Len(flattened_trueblock) > 0 THEN jump_label_true ELSE jump_label_end
            jump_statement ==
                IF statement.name = "branch_fproc"
                THEN JumpFproc(statement.alu_cond, statement.cond_lhs, statement.func_id,
                               statement.scope, target)
                ELSE JumpCond(statement.cond_lhs, statement.alu_cond, statement.cond_rhs,
                              statement.scope, target, "None")
        IN  <<jump_statement>>
            \o <<JumpLabel(jump_label_false, statement.scope)>>
            \o flattened_falseblock
            \o <<JumpI(statement.scope, jump_label_end)>>
            \o (IF Len(flattened_trueblock) > 0
                THEN <<JumpLabel(jump_label_true, statement.scope)>> \o flattened_trueblock
                ELSE <<>>)
            \o <<JumpLabel(jump_label_end, statement.scope)>>
            \o FlattenFrom(program, i + 1, branchind + 1, label_prefix)
      ELSE IF statement.name = "loop" THEN
        LET flattened_body == FlattenFrom(statement.body, 1, 0, <<"loop", "body">> \o label_prefix)
            loop_label == label_prefix \o <<"loop", IntStr(branchind), "loopctrl">>
        IN  <<JumpLabel(loop_label, statement.scope)>>
            \o <<Barrier(statement.scope, NoScope)>>
            \o flattened_body
            \o <<LoopEnd(statement.scope, loop_label)>>
            \o <<JumpCond(statement.cond_lhs, statement.alu_cond, statement.cond_rhs,
                          statement.scope, loop_label, "loopctrl")>>
            \o FlattenFrom(program, i + 1, branchind + 1, label_prefix)
      ELSE IF statement.name = "alu_op" THEN
        FlattenFrom(program, i + 1, branchind, label_prefix)
      ELSE <<statement>> \o FlattenFrom(program, i + 1, branchind, label_prefix)

FlattenControlFlow(program) == FlattenFrom(program, 1, 0, <<>>)

-----------------------------------------------------------------------------
(* The control-flow graph (networkx.DiGraph as IRProgram uses it) *)

\* a node of control_flow_graph with its attributes; attributes a pass has not
\* set yet are empty
Node(nm, instrs, ind) ==
    [name |-> nm, instructions |-> instrs, ind |-> ind, scope |-> NoScope,
     block_end_t |-> <<>>, last_instr_end_t |-> <<>>, ending_zphases |-> <<>>]

NodeNames(ns) == {ns[k].name : k \in 1..Len(ns)}

NodeIndex(ns, nm) == CHOOSE k \in 1..Len(ns) : ns[k].name = nm

\* ir_prog.blocks[nm]
Block(ns, nm) == ns[NodeIndex(ns, nm)]

\* DiGraph.add_node(nm, instructions=instrs, ind=ind): a node that exists keeps its
\* place and has its attributes overwritten
AddNode(ns, nm, instrs, ind) ==
    IF nm \in NodeNames(ns)
    THEN [ns EXCEPT ![NodeIndex(ns, nm)].instructions = instrs, ![NodeIndex(ns, nm)].ind = ind]
    ELSE Append(ns, Node(nm, instrs, ind))

\* DiGraph.add_edge(u, v)
AddEdge(es, u, v) == es \cup {<<u, v>>}

\* DiGraph.predecessors(nm)
Predecessors(es, nm) == {e[1] : e \in {x \in es : x[2] = nm}}

RECURSIVE InsertByIndBeforeEqual(_, _)
\* InsertByInd with a node put before the nodes of equal ind
InsertByIndBeforeEqual(sorted, n) ==
    IF sorted = <<>> THEN <<n>>
    ELSE IF Last(sorted).ind < n.ind THEN Append(sorted, n)
    ELSE Append(InsertByIndBeforeEqual(SubSeq(sorted, 1, Len(sorted) - 1), n), Last(sorted))

\* IRProgram.blocknames_by_ind: sorted() is stable, so equal ind keeps insertion order
RECURSIVE InsertByInd(_, _)
InsertByInd(sorted, n) ==
    IF sorted = <<>> THEN <<n>>
    ELSE IF Last(sorted).ind <= n.ind THEN Append(sorted, n)
    ELSE Append(InsertByInd(SubSeq(sorted, 1, Len(sorted) - 1), n), Last(sorted))

RECURSIVE SortByInd(_)
SortByInd(ns) ==
    IF ns = <<>> THEN <<>>
    ELSE InsertByInd(SortByInd(SubSeq(ns, 1, Len(ns) - 1)), Last(ns))

BlocknamesByInd(ns) == [k \in 1..Len(ns) |-> SortByInd(ns)[k].name]

-----------------------------------------------------------------------------
(* MakeBasicBlocks (passes.py) *)

RECURSIVE MakeBlocksFrom(_, _, _)
\* the loop over full_program, from statement k on; st holds the loop's variables
MakeBlocksFrom(full_program, k, st) ==
    IF k > Len(full_program)
    THEN AddNode(st.nodes, st.cur_blockname, st.cur_block, st.block_ind)
    ELSE
      LET statement == full_program[k] IN
      IF statement.name \in {"jump_fproc", "jump_cond", "jump_i"} THEN
        LET ns1 == AddNode(st.nodes, st.cur_blockname, st.cur_block, st.block_ind)
            ctrl_blockname ==
                IF Last(statement.jump_label) = "loopctrl"
                THEN statement.jump_label \o <<"ctrl">>
                ELSE st.cur_blockname \o <<"ctrl">>
            ns2 == AddNode(ns1, ctrl_blockname, <<statement>>, st.block_ind + 1)
        IN  MakeBlocksFrom(full_program, k + 1,
                [nodes |-> ns2, cur_blockname |-> <<"block", IntStr(st.blockname_ind)>>,
                 blockname_ind |-> st.blockname_ind + 1, block_ind |-> st.block_ind + 2,
                 cur_block |-> <<>>])
      ELSE IF statement.name = "jump_label" THEN
        MakeBlocksFrom(full_program, k + 1,
            [st EXCEPT !.nodes = AddNode(st.nodes, st.cur_blockname, st.cur_block, st.block_ind),
                       !.cur_block = <<statement>>, !.cur_blockname = statement.label])
      ELSE
        MakeBlocksFrom(full_program, k + 1, [st EXCEPT !.cur_block = Append(@, statement)])

\* remove_node for every node whose instructions == []
RECURSIVE PruneEmpty(_)
PruneEmpty(ns) ==
    IF ns = <<>> THEN <<>>
    ELSE IF Head(ns).instructions = <<>> THEN PruneEmpty(Tail(ns))
    ELSE <<Head(ns)>> \o PruneEmpty(Tail(ns))

MakeBasicBlocksRun(ns) ==
    LET cur_blockname == ns[1].name
        full_program == ns[1].instructions
        ns0 == [ns EXCEPT ![1].instructions = <<>>]
    IN  PruneEmpty(MakeBlocksFrom(full_program, 1,
            [nodes |-> ns0, cur_blockname |-> cur_blockname, blockname_ind |-> 1,
             block_ind |-> 0, cur_block |-> <<>>]))

-----------------------------------------------------------------------------
(* Channel grouping (QubitScoper and CoreScoper, ir.py) *)

\* the grouping template ('{qubit}.qdrv', '{qubit}.rdrv', '{qubit}.rdlo'), each
\* pattern given by the part that follows '{qubit}.'
QubitGrouping == <<"qdrv", "rdrv", "rdlo">>
ProcGrouping == <<QubitGrouping>>

\* parse.parse(pattern, s): the qubit when s is '<qubit>.<pattern suffix>', else None
Parse(pattern, s) == IF Len(s) = 2 /\ s[2] = pattern THEN <<s[1]>> ELSE NoName

\* pattern.format(qubit=q)
Format(pattern, q) == q \o <<pattern>>

\* QubitScoper.get_scope
GetScope(qubits) ==
    UNION {IF \E k \in 1..Len(QubitGrouping) : Parse(QubitGrouping[k], q) # NoName
           THEN {q}
           ELSE {Format(QubitGrouping[k], q) : k \in 1..Len(QubitGrouping)} : q \in qubits}

\* CoreScoper._generate_proc_groups: proc_groupings[dest], the core of channel dest:
\* the group of the last pattern that parses dest, formatted with dest's qubit
ProcGroupOf(dest) ==
    LET matches == {gk \in UNION {{<<g, k>> : k \in 1..Len(ProcGrouping[g])} :
                                      g \in 1..Len(ProcGrouping)} :
                       Parse(ProcGrouping[gk[1]][gk[2]], dest) # NoName}
        lastm == CHOOSE m \in matches : \A o \in matches :
                     o[1] < m[1] \/ (o[1] = m[1] /\ o[2] <= m[2])
        grp == ProcGrouping[lastm[1]]
    IN  [k \in 1..Len(grp) |-> Format(grp[k], Parse(grp[lastm[2]], dest))]

\* the <<template, pattern>> positions of proc_grouping whose pattern parses dest
MatchesIn(proc_grouping, dest) ==
    {gk \in UNION {{<<g, k>> : k \in 1..Len(proc_grouping[g])} : g \in 1..Len(proc_grouping)} :
        Parse(proc_grouping[gk[1]][gk[2]], dest) # NoName}

\* the tuple of the one pattern that parsed dest, in place of the whole template
FormatGroupMatchedOnly(proc_grouping, dest) == <<dest>>

\* tuple(pattern.format(**sub_dict.named) for pattern in group) at the last pattern of
\* the last template that parses dest: what the loops leave in proc_groupings[dest]
FormatGroup(proc_grouping, dest) ==
    LET matches == MatchesIn(proc_grouping, dest)
        lastm == CHOOSE m \in matches : \A o \in matches :
                     o[1] < m[1] \/ (o[1] = m[1] /\ o[2] <= m[2])
        grp == proc_grouping[lastm[1]]
    IN  [k \in 1..Len(grp) |-> Format(grp[k], Parse(grp[lastm[2]], dest))]

\* CoreScoper._generate_proc_groups: a channel no pattern parses gets no entry
GenerateProcGroups(dest_channels, proc_grouping) ==
    [dest \in {d \in dest_channels : MatchesIn(proc_grouping, d) # {}} |->
        FormatGroup(proc_grouping, dest)]

\* CoreScoper.get_groups_bydest
GetGroupsByDest(dests) == {ProcGroupOf(d) : d \in dests}

-----------------------------------------------------------------------------
(* ScopeProgram (passes.py) *)

\* ScopeInstr with the qubits of an instruction given no scope left unread
ScopeInstrScopeOnly(instr) ==
    IF HasScopeAttr(instr) /\ instr.scope # NoScope
    THEN [instr EXCEPT !.scope = GetScope(instr.scope), !.scope_is = "None"]
    ELSE instr

\* the loop body of run_pass for one instruction: the instruction with its scope set
ScopeInstr(instr) ==
    IF HasScopeAttr(instr) /\ instr.scope # NoScope
    THEN [instr EXCEPT !.scope = GetScope(instr.scope), !.scope_is = "None"]
    ELSE IF HasQubitAttr(instr) /\ instr.qubit # NoScope
    THEN [instr EXCEPT !.scope = GetScope(instr.qubit), !.scope_is = "None"]
    ELSE instr

\* what the instruction adds to the scope of its block
InstrBlockScope(instr) ==
    IF (HasScopeAttr(instr) /\ instr.scope # NoScope)
       \/ (HasQubitAttr(instr) /\ instr.qubit # NoScope)
    THEN ScopeInstr(instr).scope
    ELSE IF HasDestAttr(instr) THEN GetScope({instr.dest})
    ELSE {}

ScopeNode(n) ==
    [n EXCEPT !.instructions = [k \in 1..Len(n.instructions) |-> ScopeInstr(n.instructions[k])],
              !.scope = UNION {InstrBlockScope(n.instructions[k]) : k \in 1..Len(n.instructions)}]

\* IRProgram.scope
ProgScope(ns) == UNION {ns[k].scope : k \in 1..Len(ns)}

\* _rescope_barriers_and_delays
RescopeInstr(instr, progscope) ==
    IF instr.name \in {"barrier", "delay", "idle"} /\ instr.scope = NoScope
    THEN [instr EXCEPT !.scope = progscope]
    ELSE instr

ScopeProgramRun(ns) ==
    LET scoped == [k \in 1..Len(ns) |-> ScopeNode(ns[k])]
    IN  [k \in 1..Len(ns) |->
            [scoped[k] EXCEPT !.instructions =
                [j \in 1..Len(scoped[k].instructions) |->
                    RescopeInstr(scoped[k].instructions[j], ProgScope(scoped))]]]

-----------------------------------------------------------------------------
(* Variable and frequency tables (IRProgram, ir.py) and RegisterVarsAndFreqs (passes.py) *)

\* d[k] = v on a dict
Put(d, k, v) == [x \in DOMAIN d \cup {k} |-> IF x = k THEN v ELSE d[x]]

\* isinstance(freq, str): the frequency is a name, not a number
IsFreqName(key) == \A n \in 0..12 : key # FreqKey(n)

\* the number a numeric frequency is
FreqOf(key) == CHOOSE n \in 0..12 : FreqKey(n) = key

\* register_freq with the comparison against the registered value left out
RegisterFreqOverwrite(freqs, key, freq) == [err |-> "none", freqs |-> Put(freqs, key, freq)]

\* IRProgram.register_freq
RegisterFreq(freqs, key, freq) ==
    IF key \in DOMAIN freqs /\ freqs[key] # freq
    THEN [err |-> "Exception", freqs |-> freqs]
    ELSE [err |-> "none", freqs |-> Put(freqs, key, freq)]

\* IRProgram.register_var
RegisterVar(vs, varname, scope) ==
    IF varname \in DOMAIN vs
    THEN [err |-> "Exception", vars |-> vs]
    ELSE [err |-> "none", vars |-> Put(vs, varname, [name |-> varname, scope |-> scope])]

\* the loop body of RegisterVarsAndFreqs.run_pass for one instruction (qchip is None)
RegisterInstr(instr, vs, fs) ==
    LET R(e, v, f, i) == [err |-> e, vars |-> v, freqs |-> f, instr |-> i]
    IN  IF instr.name = "declare_freq" THEN
          LET freqname == IF instr.freqname # NoName THEN instr.freqname ELSE instr.freq
              r == RegisterFreq(fs, freqname, FreqOf(instr.freq))
          IN  R(r.err, vs, r.freqs, instr)
        ELSE IF instr.name = "declare" THEN
          LET r == RegisterVar(vs, instr.var, instr.scope)
          IN  R(r.err, r.vars, fs, [instr EXCEPT !.scope_is = IF r.err = "none" THEN instr.var ELSE @])
        ELSE IF instr.name = "pulse" THEN
          IF instr.freq \in DOMAIN fs THEN R("none", vs, fs, instr)
          ELSE IF IsFreqName(instr.freq) THEN R("Exception", vs, fs, instr)
          ELSE R("none", vs, RegisterFreq(fs, instr.freq, FreqOf(instr.freq)).freqs, instr)
        ELSE IF instr.name = "alu" THEN
          IF instr.rhs \notin DOMAIN vs \/ (instr.lhs.isvar /\ instr.lhs.vname \notin DOMAIN vs)
          THEN R("KeyError", vs, fs, instr)
          ELSE LET scoped == IF instr.lhs.isvar
                             THEN [instr EXCEPT !.scope = vs[instr.rhs].scope \cup vs[instr.lhs.vname].scope,
                                                !.scope_is = "None"]
                             ELSE [instr EXCEPT !.scope = vs[instr.rhs].scope, !.scope_is = instr.rhs]
               IN  IF instr.out \notin DOMAIN vs THEN R("KeyError", vs, fs, scoped)
                   ELSE IF ~(vs[instr.out].scope \subseteq scoped.scope)
                   THEN R("AssertionError", vs, fs, scoped)
                   ELSE R("none", vs, fs, scoped)
        ELSE IF instr.name \in {"set_var", "read_fproc"} THEN
          IF instr.var \notin DOMAIN vs THEN R("KeyError", vs, fs, instr)
          ELSE R("none", vs, fs, [instr EXCEPT !.scope = vs[instr.var].scope, !.scope_is = instr.var])
        ELSE IF instr.name = "alu_fproc" /\ instr.lhs.isvar THEN R("AttributeError", vs, fs, instr)
        ELSE R("none", vs, fs, instr)

RECURSIVE RegisterFrom(_, _, _)
\* run_pass from instruction j of the k-th block on; st holds nodes, vars, freqs, err
RegisterFrom(k, j, st) ==
    IF st.err # "none" \/ k > Len(st.nodes) THEN st
    ELSE IF j > Len(st.nodes[k].instructions) THEN RegisterFrom(k + 1, 1, st)
    ELSE LET r == RegisterInstr(st.nodes[k].instructions[j], st.vars, st.freqs)
         IN  RegisterFrom(k, j + 1,
                 [err |-> r.err, vars |-> r.vars, freqs |-> r.freqs,
                  nodes |-> [st.nodes EXCEPT ![k].instructions[j] = r.instr]])

RegisterVarsAndFreqsRun(ns, vs, fs) ==
    RegisterFrom(1, 1, [err |-> "none", vars |-> vs, freqs |-> fs, nodes |-> ns])

-----------------------------------------------------------------------------
(* GenerateCFG (passes.py) *)

\* LastBlockAfter with a block that ends in jump_i recorded like any other
LastBlockAfterKept(lastblock, b) ==
    [d \in DOMAIN lastblock |-> IF d \in b.scope THEN b.name ELSE lastblock[d]]

\* lastblock after block b (a node) has been visited
LastBlockAfter(lastblock, b) ==
    LET lastn == Last(b.instructions).name
    IN  [d \in DOMAIN lastblock |->
            IF d \in b.scope
            THEN (IF lastn = "jump_i" THEN NoName ELSE b.name)
            ELSE lastblock[d]]

\* the edges from each channel's last block to block b
AddLastBlockEdges(es, lastblock, b) ==
    es \cup {<<lastblock[d], b.name>> : d \in {x \in b.scope : lastblock[x] # NoName}}

\* AddJumpEdge with the jump that closes a loop given an edge like any other
AddJumpEdgeLoops(es, b) ==
    LET lasti == Last(b.instructions)
    IN  IF lasti.name \in {"jump_fproc", "jump_cond", "jump_i"}
        THEN AddEdge(es, b.name, lasti.jump_label)
        ELSE es

\* the edge to the jump target of block b, if its last instruction has one
AddJumpEdge(es, b) ==
    LET lasti == Last(b.instructions)
    IN  IF lasti.name \in {"jump_fproc", "jump_cond"}
        THEN (IF lasti.jump_type # "loopctrl" THEN AddEdge(es, b.name, lasti.jump_label) ELSE es)
        ELSE IF lasti.name = "jump_i" THEN AddEdge(es, b.name, lasti.jump_label)
        ELSE es

RECURSIVE GenerateCFGFrom(_, _, _, _)
GenerateCFGFrom(ns, byind, k, st) ==
    IF k > Len(byind) THEN st.edges
    ELSE LET b == Block(ns, byind[k])
             es1 == AddLastBlockEdges(st.edges, st.lastblock, b)
         IN  GenerateCFGFrom(ns, byind, k + 1,
                 [edges |-> AddJumpEdge(es1, b), lastblock |-> LastBlockAfter(st.lastblock, b)])

GenerateCFGRun(ns) ==
    GenerateCFGFrom(ns, BlocknamesByInd(ns), 1,
        [edges |-> {}, lastblock |-> [d \in ProgScope(ns) |-> NoName]])

\* the nodes left once every node with no predecessor left has been removed, over
\* and over: empty exactly when the graph has a topological sort
RECURSIVE Unsortable(_, _)
Unsortable(S, es) ==
    LET ready == {n \in S : Predecessors(es, n) \cap S = {}}
    IN  IF ready = {} THEN S ELSE Unsortable(S \ ready, es)

GraphNodes(ns, es) == NodeNames(ns) \cup {e[1] : e \in es} \cup {e[2] : e \in es}

HasCycle(ns, es) == Unsortable(GraphNodes(ns, es), es) # {}

-----------------------------------------------------------------------------
(* ResolveGates (passes.py) *)

GateNames == {"X90", "read", "Z90"}

\* isinstance(instr, iri.Gate)
IsGate(instr) == instr.name \in GateNames

\* qchip.gates[qubit + name].get_updated_copy(modi).get_pulses(): an X90 is one drive
\* pulse, a read is a pulse on the readout drive and, t0 later, one on the readout
\* LO, a Z90 is a virtual-Z of pi/2 (phases are in units of pi/4)
\* the value the qchip holds for a named frequency
QChipFreq(freqname) == IF freqname[2] = "freq" THEN 4 ELSE 6

GatePulse(fr, ph, tw, d, t0) ==
    [kind |-> "GatePulse", freqname |-> fr, freq |-> QChipFreq(fr), phase |-> ph, twidth |-> tw,
     dest |-> d, t0 |-> t0]
GateVirtualZ(fr, ph) ==
    [kind |-> "VirtualZ", freqname |-> fr, freq |-> QChipFreq(fr), phase |-> ph, twidth |-> 0,
     dest |-> NoName, t0 |-> 0]

QChipGates(gname, q, tw) ==
    IF gname = "X90" THEN <<GatePulse(q \o <<"freq">>, 0, tw, q \o <<"qdrv">>, 0)>>
    ELSE IF gname = "read"
    THEN <<GatePulse(q \o <<"readfreq">>, 0, tw, q \o <<"rdrv">>, 0),
           GatePulse(q \o <<"readfreq">>, 0, tw, q \o <<"rdlo">>, fpga_clk_period)>>
    ELSE <<GateVirtualZ(q \o <<"freq">>, 2)>>

\* the instructions one pulse of a gate is replaced by
ResolvePulse(pulse) ==
    IF pulse.kind = "GatePulse"
    THEN (IF pulse.t0 # 0 THEN <<Delay(pulse.t0, {pulse.dest})>> ELSE <<>>)
         \o <<Pulse(pulse.freqname, pulse.phase, pulse.twidth, pulse.dest)>>
    ELSE <<[Blank EXCEPT !.name = "virtual_z", !.freq = pulse.freqname,
                         !.phase = IntOp(pulse.phase)]>>

\* the instructions block[i] is replaced by
ResolveGateInstr(instr) ==
    IF IsGate(instr)
    THEN LET q == CHOOSE x \in instr.qubit : TRUE
             pulses == QChipGates(instr.name, q, instr.twidth)
         IN  <<Barrier(NoScope, GetScope(instr.qubit))>>
             \o Concat([k \in 1..Len(pulses) |-> ResolvePulse(pulses[k])])
    ELSE <<instr>>

\* the pulses of the gates of the program, in the order run_pass meets them
GatePulsesOf(ns) ==
    Concat([k \in 1..Len(ns) |->
        Concat([j \in 1..Len(ns[k].instructions) |->
            LET instr == ns[k].instructions[j]
            IN  IF IsGate(instr)
                THEN QChipGates(instr.name, CHOOSE x \in instr.qubit : TRUE, instr.twidth)
                ELSE <<>>])])

\* ir_prog.freqs after run_pass has met one pulse of a gate: a name not yet registered
\* is registered with the qchip value, a registered one is left as it is (a differing
\* value is only logged)
RegisterGatePulse(fs, pulse) ==
    IF pulse.kind # "GatePulse" THEN fs
    ELSE IF pulse.freqname # NoName
    THEN (IF pulse.freqname \notin DOMAIN fs
          THEN RegisterFreq(fs, pulse.freqname, pulse.freq).freqs
          ELSE fs)
    ELSE IF FreqKey(pulse.freq) \notin DOMAIN fs
    THEN RegisterFreq(fs, FreqKey(pulse.freq), pulse.freq).freqs
    ELSE fs

RECURSIVE RegisterGatePulses(_, _, _)
RegisterGatePulses(fs, pulses, i) ==
    IF i > Len(pulses) THEN fs
    ELSE RegisterGatePulses(RegisterGatePulse(fs, pulses[i]), pulses, i + 1)

ResolveGatesRun(ns) ==
    [k \in 1..Len(ns) |->
        [ns[k] EXCEPT !.instructions =
            Concat([j \in 1..Len(ns[k].instructions) |-> ResolveGateInstr(ns[k].instructions[j])])]]

-----------------------------------------------------------------------------
(* ResolveVirtualZ (passes.py) *)

\* the (frequency, phase) pairs the predecessors of block nm ended with
PredZPhases(ns, es, nm) ==
    UNION {{<<f, Block(ns, p).ending_zphases[f]>> : f \in DOMAIN Block(ns, p).ending_zphases} :
              p \in Predecessors(es, nm)}

\* PhaseMismatch with the comparison of the predecessors' phases left out
PhaseMismatchNever(ns, es, nm) == FALSE

\* the ValueError of the loop over the predecessors: some predecessor's phase differs
\* from the one zphase_acc already holds for the frequency
PhaseMismatch(ns, es, nm) ==
    \E x, y \in PredZPhases(ns, es, nm) : x[1] = y[1] /\ x[2] # y[2]

\* zphase_acc after the loop over the predecessors
InitialZPhaseAcc(ns, es, nm) ==
    [f \in {x[1] : x \in PredZPhases(ns, es, nm)} |->
        (CHOOSE x \in PredZPhases(ns, es, nm) : x[1] = f)[2]]

\* instr.phase += zphase_acc[instr.freq]
AddPhase(instr, zphase_acc) ==
    IF instr.freq \in DOMAIN zphase_acc
    THEN [instr EXCEPT !.phase = IntOp(instr.phase.ival + zphase_acc[instr.freq])]
    ELSE instr

\* AccumulateZ with the phase overwritten instead of added to
AccumulateZOverwrite(instr, zphase_acc) ==
    [f \in DOMAIN zphase_acc \cup {instr.freq} |->
        IF f = instr.freq THEN instr.phase.ival ELSE zphase_acc[f]]

\* zphase_acc after the VirtualZ instr
AccumulateZ(instr, zphase_acc) ==
    [f \in DOMAIN zphase_acc \cup {instr.freq} |->
        IF f = instr.freq
        THEN (IF f \in DOMAIN zphase_acc THEN zphase_acc[f] + instr.phase.ival
              ELSE instr.phase.ival)
        ELSE zphase_acc[f]]

RECURSIVE FoldVirtualZ(_, _, _)
\* the while loop over the instructions of a block, from instruction i on; st holds
\* the instructions kept so far, zphase_acc and the exception raised, if any
FoldVirtualZ(instructions, i, st) ==
    IF i > Len(instructions) \/ st.err # "none" THEN st
    ELSE
      LET instr == instructions[i] IN
      IF instr.name = "pulse"
      THEN IF instr.freq \in DOMAIN st.zphase_acc /\ instr.phase.isvar
           THEN [st EXCEPT !.err = "TypeError"]    \* the name of a variable += a number
           ELSE FoldVirtualZ(instructions, i + 1,
                    [st EXCEPT !.instructions = Append(@, AddPhase(instr, st.zphase_acc))])
      ELSE IF instr.name = "virtual_z"
      THEN FoldVirtualZ(instructions, i + 1,
               [st EXCEPT !.zphase_acc = AccumulateZ(instr, @)])
      ELSE IF IsGate(instr)
      THEN [st EXCEPT !.err = "Exception"]
      ELSE FoldVirtualZ(instructions, i + 1, [st EXCEPT !.instructions = Append(@, instr)])

\* the body of the loop over topological_sort for the block nm
ResolveVirtualZBlock(ns, es, nm) ==
    IF PhaseMismatch(ns, es, nm)
    THEN [instructions |-> Block(ns, nm).instructions, zphase_acc |-> <<>>, err |-> "ValueError"]
    ELSE FoldVirtualZ(Block(ns, nm).instructions, 1,
             [instructions |-> <<>>, zphase_acc |-> InitialZPhaseAcc(ns, es, nm), err |-> "none"])

-----------------------------------------------------------------------------
(* ResolveFPROCChannels (passes.py, hwconfig.py) *)

\* FPGAConfig.fproc_channels: the keys 'Q<i>.meas'
IsFprocChannel(func_id) == Len(func_id) = 2 /\ func_id[2] = "meas"

\* fproc_channels[func_id]
FprocChan(func_id) ==
    [id |-> <<func_id[1], "rdlo", "core_ind">>,
     hold_after_chans |-> {<<func_id[1], "rdlo">>},
     hold_nclks |-> FPROC_MEAS_CLKS]

\* what instructions[i] is replaced by
ResolveFprocInstr(instr) ==
    IF instr.name \in {"read_fproc", "jump_fproc", "alu_fproc"} /\ IsFprocChannel(instr.func_id)
    THEN <<Hold(FprocChan(instr.func_id).hold_nclks, FprocChan(instr.func_id).hold_after_chans,
                instr.scope),
           [instr EXCEPT !.func_id = FprocChan(instr.func_id).id]>>
    ELSE <<instr>>

ResolveFPROCChannelsRun(ns) ==
    [k \in 1..Len(ns) |->
        [ns[k] EXCEPT !.instructions =
            Concat([j \in 1..Len(ns[k].instructions) |-> ResolveFprocInstr(ns[k].instructions[j])])]]

-----------------------------------------------------------------------------
(* RescopeVars (passes.py) *)

\* the blocks after set.add(dest) on the scope set of variable v: every instruction
\* whose scope is that very set sees the new member
AddInPlace(ns, v, dest) ==
    [k \in 1..Len(ns) |->
        [ns[k] EXCEPT !.instructions =
            [j \in 1..Len(ns[k].instructions) |->
                IF ns[k].instructions[j].scope_is = v
                THEN [ns[k].instructions[j] EXCEPT !.scope = @ \cup {dest}]
                ELSE ns[k].instructions[j]]]]

\* the blocks after variable v was given a new scope set: the instructions that
\* referred to the old set keep it
Rebind(ns, v) ==
    [k \in 1..Len(ns) |->
        [ns[k] EXCEPT !.instructions =
            [j \in 1..Len(ns[k].instructions) |->
                IF ns[k].instructions[j].scope_is = v
                THEN [ns[k].instructions[j] EXCEPT !.scope_is = "None"]
                ELSE ns[k].instructions[j]]]]

\* GrowVar with the scope of the jump taken as the new scope of the variable
GrowVarReplace(st, v, scope) ==
    IF scope \subseteq st.vars[v].scope THEN st
    ELSE [st EXCEPT !.vars[v].scope = scope, !.nodes = Rebind(st.nodes, v),
                    !.rescope_block = TRUE]

\* vars[v].scope = vars[v].scope.union(scope), when scope is not a subset of it
GrowVar(st, v, scope) ==
    IF scope \subseteq st.vars[v].scope THEN st
    ELSE [st EXCEPT !.vars[v].scope = @ \cup scope, !.nodes = Rebind(st.nodes, v),
                    !.rescope_block = TRUE]

\* the loop body of RescopeVars.run_pass for one instruction; st holds nodes, vars,
\* rescope_block, err
RescopeVarsInstr(instr, st) ==
    IF instr.name = "pulse" THEN
      IF instr.phase.isvar /\ instr.phase.vname \in DOMAIN st.vars
         /\ instr.dest \notin st.vars[instr.phase.vname].scope
      THEN [st EXCEPT !.vars[instr.phase.vname].scope = @ \cup {instr.dest},
                      !.nodes = AddInPlace(st.nodes, instr.phase.vname, instr.dest),
                      !.rescope_block = TRUE]
      ELSE st
    ELSE IF instr.name \in {"jump_cond", "jump_fproc"} THEN
      LET st1 == IF instr.cond_lhs.isvar /\ instr.cond_lhs.vname \in DOMAIN st.vars
                 THEN GrowVar(st, instr.cond_lhs.vname, instr.scope)
                 ELSE st
      IN  IF instr.name = "jump_cond"
          THEN IF instr.cond_rhs \notin DOMAIN st1.vars THEN [st1 EXCEPT !.err = "KeyError"]
               ELSE GrowVar(st1, instr.cond_rhs, instr.scope)
          ELSE st1
    ELSE st

RECURSIVE RescopeVarsFrom(_, _, _)
\* the loop over the instructions of block nm, from the j-th on
RescopeVarsFrom(nm, j, st) ==
    IF st.err # "none" \/ j > Len(Block(st.nodes, nm).instructions) THEN st
    ELSE RescopeVarsFrom(nm, j + 1, RescopeVarsInstr(Block(st.nodes, nm).instructions[j], st))

\* RescopeVars._rescope_block for one instruction
RescopeBlockInstr(instr, vs) ==
    IF instr.name \in {"declare", "set_var"}
    THEN [instr EXCEPT !.scope = vs[instr.var].scope, !.scope_is = instr.var]
    ELSE IF instr.name \in {"alu", "rc_alu"}
    THEN [instr EXCEPT !.scope = vs[instr.out].scope, !.scope_is = instr.out]
    ELSE instr

\* the body of the loop of RescopeVars.run_pass for block nm
RescopeVarsBlock(ns, vs, nm) ==
    LET st == RescopeVarsFrom(nm, 1, [nodes |-> ns, vars |-> vs, rescope_block |-> FALSE,
                                      err |-> "none"])
        k == NodeIndex(ns, nm)
    IN  IF st.err = "none" /\ st.rescope_block
        THEN [st EXCEPT !.nodes[k].instructions =
                 [j \in 1..Len(@) |-> RescopeBlockInstr(@[j], st.vars)]]
        ELSE st

-----------------------------------------------------------------------------
(* Schedule (passes.py) *)

\* _get_pulse_nclks: int(np.ceil(length / fpga_clk_period))
GetPulseNclks(length) == (length + fpga_clk_period - 1) \div fpga_clk_period

\* max(d.values())
MaxValue(d) == SetMax({d[k] : k \in DOMAIN d})

\* last_instr_end_t[grp] += clks for every core of scope
AdvanceCores(last, scope, clks) ==
    [grp \in DOMAIN last |->
        IF grp \in GetGroupsByDest(scope) THEN last[grp] + clks ELSE last[grp]]

\* the result of one turn of the while loop of _schedule_block: the exception it
\* raises (or "none"), cur_t and last_instr_end_t after it, and what instructions[i]
\* is replaced by
SchedResult(e, ct, last, out) == [err |-> e, cur_t |-> ct, last |-> last, out |-> out]

\* a lookup cur_t[dest] or proc_groupings[dest] for a dest outside ir_prog.scope, or
\* last_instr_end_t[grp] for a core outside the block's cores, raises KeyError
CoresKnown(scope, ct, last) ==
    scope \subseteq DOMAIN ct /\ GetGroupsByDest(scope) \subseteq DOMAIN last

\* SchedulePulse with the core's last-issue time left out of start_time
SchedulePulseCursorOnly(instr, ct, last) ==
    LET core == ProcGroupOf(instr.dest)
        start_time == ct[instr.dest]
    IN  SchedResult("none",
            [ct EXCEPT ![instr.dest] = start_time + GetPulseNclks(instr.twidth)],
            [last EXCEPT ![core] = start_time + pulse_load_clks],
            <<[instr EXCEPT !.start_time = start_time]>>)

\* SchedulePulse with the pulse load time left out of the core's last-issue time
SchedulePulseNoLoad(instr, ct, last) ==
    LET core == ProcGroupOf(instr.dest)
        start_time == Max(last[core], ct[instr.dest])
    IN  SchedResult("none",
            [ct EXCEPT ![instr.dest] = start_time + GetPulseNclks(instr.twidth)],
            [last EXCEPT ![core] = start_time],
            <<[instr EXCEPT !.start_time = start_time]>>)

SchedulePulse(instr, ct, last) ==
    LET core == ProcGroupOf(instr.dest)
        start_time == Max(last[core], ct[instr.dest])
    IN  SchedResult("none",
            [ct EXCEPT ![instr.dest] = start_time + GetPulseNclks(instr.twidth)],
            [last EXCEPT ![core] = start_time + pulse_load_clks],
            <<[instr EXCEPT !.start_time = start_time]>>)

\* ScheduleBarrier with the cores' last-issue times left out of max_t
ScheduleBarrierCursors(instr, ct, last) ==
    LET max_t == SetMax({ct[dest] : dest \in instr.scope})
    IN  SchedResult("none",
            [dest \in DOMAIN ct |-> IF dest \in instr.scope THEN max_t ELSE ct[dest]],
            last, <<>>)

ScheduleBarrier(instr, ct, last) ==
    LET max_cur_t == SetMax({ct[dest] : dest \in instr.scope})
        max_last_instr_t == SetMax({last[ProcGroupOf(dest)] : dest \in instr.scope})
        max_t == Max(max_cur_t, max_last_instr_t)
    IN  SchedResult("none",
            [dest \in DOMAIN ct |-> IF dest \in instr.scope THEN max_t ELSE ct[dest]],
            last, <<>>)

ScheduleDelay(instr, ct, last) ==
    SchedResult("none",
        [dest \in DOMAIN ct |->
            IF dest \in instr.scope THEN ct[dest] + GetPulseNclks(instr.t) ELSE ct[dest]],
        last, <<>>)

\* ScheduleHold with a core idled unless its last-issue time is past the end of the hold
ScheduleHoldExceeds(instr, ct, last) ==
    LET max_t == SetMax({ct[dest] : dest \in instr.ref_chans})
        idle_end_t == max_t + instr.nclks
        idle_cores == {grp \in GetGroupsByDest(instr.scope) : ~(last[grp] > idle_end_t)}
        idle_instr_scope == UNION {Range(grp) : grp \in idle_cores}
    IN  SchedResult("none", ct,
            [grp \in DOMAIN last |->
                IF grp \in idle_cores THEN idle_end_t + pulse_load_clks ELSE last[grp]],
            IF idle_instr_scope # {} THEN <<Idle(idle_end_t, idle_instr_scope)>> ELSE <<>>)

\* ScheduleHold with the cores that are already past the hold idled as well
ScheduleHoldAlways(instr, ct, last) ==
    LET max_t == SetMax({ct[dest] : dest \in instr.ref_chans})
        idle_end_t == max_t + instr.nclks
        idle_cores == GetGroupsByDest(instr.scope)
        idle_instr_scope == UNION {Range(grp) : grp \in idle_cores}
    IN  SchedResult("none", ct,
            [grp \in DOMAIN last |->
                IF grp \in idle_cores THEN idle_end_t + pulse_load_clks ELSE last[grp]],
            <<Idle(idle_end_t, idle_instr_scope)>>)

ScheduleHold(instr, ct, last) ==
    LET max_t == SetMax({ct[dest] : dest \in instr.ref_chans})
        idle_end_t == max_t + instr.nclks
        idle_cores == {grp \in GetGroupsByDest(instr.scope) : ~(last[grp] >= idle_end_t)}
        idle_instr_scope == UNION {Range(grp) : grp \in idle_cores}
    IN  SchedResult("none", ct,
            [grp \in DOMAIN last |->
                IF grp \in idle_cores THEN idle_end_t + pulse_load_clks ELSE last[grp]],
            IF idle_instr_scope # {} THEN <<Idle(idle_end_t, idle_instr_scope)>> ELSE <<>>)

\* the cost of the untimed instruction classes
InstrClks(name) ==
    IF name \in {"alu", "set_var", "loop_end"} THEN alu_instr_clks
    ELSE IF name \in {"jump_fproc", "read_fproc", "alu_fproc"} THEN jump_fproc_clks
    ELSE jump_cond_clks

ScheduleInstr(instr, ct, last) ==
    IF instr.name = "pulse"
    THEN (IF CoresKnown({instr.dest}, ct, last) THEN SchedulePulse(instr, ct, last)
          ELSE SchedResult("KeyError", ct, last, <<instr>>))
    ELSE IF instr.name = "barrier"
    THEN (IF instr.scope = {} THEN SchedResult("ValueError", ct, last, <<instr>>)
          ELSE IF CoresKnown(instr.scope, ct, last) THEN ScheduleBarrier(instr, ct, last)
          ELSE SchedResult("KeyError", ct, last, <<instr>>))
    ELSE IF instr.name = "delay"
    THEN (IF instr.scope \subseteq DOMAIN ct THEN ScheduleDelay(instr, ct, last)
          ELSE SchedResult("KeyError", ct, last, <<instr>>))
    ELSE IF instr.name \in {"alu", "set_var", "jump_fproc", "read_fproc", "alu_fproc",
                            "jump_i", "jump_cond", "loop_end"}
    THEN (IF CoresKnown(instr.scope, ct, last)
          THEN SchedResult("none", ct, AdvanceCores(last, instr.scope, InstrClks(instr.name)),
                           <<instr>>)
          ELSE SchedResult("KeyError", ct, last, <<instr>>))
    ELSE IF instr.name = "hold"
    THEN (IF instr.ref_chans = {} THEN SchedResult("ValueError", ct, last, <<instr>>)
          ELSE IF instr.ref_chans \subseteq DOMAIN ct /\ CoresKnown(instr.scope, ct, last)
          THEN ScheduleHold(instr, ct, last)
          ELSE SchedResult("KeyError", ct, last, <<instr>>))
    ELSE IF IsGate(instr) THEN SchedResult("Exception", ct, last, <<instr>>)
    ELSE SchedResult("none", ct, last, <<instr>>)

\* EntryCurT with the exit times of the predecessors left out
EntryCurTFresh(ns, es, nm) == [dest \in ProgScope(ns) |-> start_nclks]

\* cur_t_global of block nm once the loop over its predecessors has run
EntryCurT(ns, es, nm) ==
    [dest \in ProgScope(ns) |->
        SetMax({start_nclks} \cup
               {Block(ns, p).block_end_t[dest] :
                   p \in {x \in Predecessors(es, nm) : dest \in Block(ns, x).scope}})]

\* EntryLastInstrEndT read from every block walked so far, predecessor or not
EntryLastInstrEndTWalked(ns, es, nm) ==
    [grp \in GetGroupsByDest(Block(ns, nm).scope) |->
        SetMax({start_nclks} \cup
               {Block(ns, p).last_instr_end_t[grp] :
                   p \in {x \in NodeNames(ns) : grp \in DOMAIN Block(ns, x).last_instr_end_t}})]

\* last_instr_end_t of block nm once the loop over its predecessors has run
EntryLastInstrEndT(ns, es, nm) ==
    [grp \in GetGroupsByDest(Block(ns, nm).scope) |->
        SetMax({start_nclks} \cup
               {Block(ns, p).last_instr_end_t[grp] :
                   p \in {x \in Predecessors(es, nm) :
                              grp \in DOMAIN Block(ns, x).last_instr_end_t}})]

\* _check_nodename_loopstart
CheckNodenameLoopstart(nodename) == Last(nodename) = "loopctrl"

\* IRProgram.register_loop
RegisterLoop(ls, nm, scope, start_time) ==
    [l \in DOMAIN ls \cup {nm} |->
        IF l = nm THEN [name |-> nm, scope |-> scope, start_time |-> start_time,
                        delta_t |-> NoTime]
        ELSE ls[l]]

\* the block ends with the conditional jump that closes a loop
EndsLoop(instructions) ==
    instructions # <<>> /\ Last(instructions).name = "jump_cond"
    /\ Last(instructions).jump_type = "loopctrl"

-----------------------------------------------------------------------------
(* LintSchedule (passes.py) *)

\* the result of one turn of the while loop of _lint_block: the exception it raises
\* (or "none") and last_instr_end_t after it
LintResult(e, last) == [err |-> e, last |-> last]

\* proc_groupings is keyed by the channels of ir_prog.scope, last_instr_end_t by the
\* cores of the block
LintCoresKnown(scope, progscope, last) ==
    scope \subseteq progscope /\ GetGroupsByDest(scope) \subseteq DOMAIN last

\* LintPulse with a pulse that starts as its core becomes free rejected as well
LintPulseStrict(instr, last) ==
    LET core == ProcGroupOf(instr.dest)
        last_instr_t == last[core]
    IN  IF instr.start_time <= last_instr_t
        THEN LintResult("start time too early", last)
        ELSE LintResult("none", [last EXCEPT ![core] = instr.start_time + pulse_load_clks])

LintPulse(instr, last) ==
    LET core == ProcGroupOf(instr.dest)
        last_instr_t == last[core]
    IN  IF instr.start_time < last_instr_t
        THEN LintResult("start time too early", last)
        ELSE LintResult("none", [last EXCEPT ![core] = instr.start_time + pulse_load_clks])

LintIdle(instr, last) ==
    IF \E grp \in GetGroupsByDest(instr.scope) : instr.end_time < last[grp]
    THEN LintResult("end time too early", last)
    ELSE LintResult("none",
             [grp \in DOMAIN last |->
                 IF grp \in GetGroupsByDest(instr.scope)
                 THEN instr.end_time + pulse_load_clks ELSE last[grp]])

LintInstr(instr, progscope, last) ==
    IF instr.name = "pulse"
    THEN (IF ~LintCoresKnown({instr.dest}, progscope, last) THEN LintResult("KeyError", last)
          ELSE IF instr.start_time = NoTime THEN LintResult("TypeError", last)
          ELSE LintPulse(instr, last))
    ELSE IF instr.name \in {"alu", "set_var", "jump_fproc", "read_fproc", "alu_fproc",
                            "jump_i", "jump_cond", "loop_end"}
    THEN (IF LintCoresKnown(instr.scope, progscope, last)
          THEN LintResult("none", AdvanceCores(last, instr.scope, InstrClks(instr.name)))
          ELSE LintResult("KeyError", last))
    ELSE IF instr.name = "idle"
    THEN (IF ~LintCoresKnown(instr.scope, progscope, last) THEN LintResult("KeyError", last)
          ELSE IF instr.end_time = NoTime THEN LintResult("TypeError", last)
          ELSE LintIdle(instr, last))
    ELSE IF IsGate(instr) THEN LintResult("Exception", last)
    ELSE LintResult("none", last)

-----------------------------------------------------------------------------
(* Lowering of the scheduled blocks (compiler.py) *)

\* the statement BasicBlock.compile appends, for each core of the instruction's
\* scope, for the instruction classes it lowers; <<>> for the others
LowerInstr(instr, ls) ==
    IF instr.name = "jump_label"
    THEN <<[op |-> "jump_label", in0 |-> 0, label |-> instr.label]>>
    ELSE IF instr.name \in {"jump_fproc", "jump_cond", "jump_i"}
    THEN <<[op |-> instr.name, in0 |-> instr.cond_lhs.ival, label |-> instr.jump_label]>>
    ELSE IF instr.name = "loop_end"
    THEN <<[op |-> "inc_qclk", in0 |-> -ls[instr.loop_label].delta_t, label |-> instr.loop_label]>>
    ELSE <<>>

\* the statements a block contributes to the stream of core grp
LowerBlock(b, grp, ls) ==
    Concat([k \in 1..Len(b.instructions) |->
               IF grp \in GetGroupsByDest(b.instructions[k].scope \ NoScope)
               THEN LowerInstr(b.instructions[k], ls) ELSE <<>>])

\* Compiler.compile: every core's stream, between phase_reset and done_stb
CompileRun(ns, ls) ==
    [grp \in GetGroupsByDest(ProgScope(ns)) |->
        <<[op |-> "phase_reset", in0 |-> 0, label |-> NoName]>>
        \o Concat([k \in 1..Len(ns) |-> LowerBlock(Block(ns, BlocknamesByInd(ns)[k]), grp, ls)])
        \o <<[op |-> "done_stb", in0 |-> 0, label |-> NoName]>>]

-----------------------------------------------------------------------------
(* Input programs *)

Q0 == <<"Q0">>
Q1 == <<"Q1">>
Chan(q, c) == q \o <<c>>

RECURSIVE ProgsOfSize(_, _, _)
\* the composite statements of exactly n statements in all, built over the simple
\* statements in simple and the control headers in ctl (branch or loop records
\* with empty sub-sequences)
StmtsOfSize(simple, ctl, n) ==
    IF n = 1
    THEN simple \cup ctl
    ELSE {[c EXCEPT !.true = tf[1], !.false = tf[2]] :
             c \in {x \in ctl : x.name # "loop"},
             tf \in UNION {ProgsOfSize(simple, ctl, a) \X ProgsOfSize(simple, ctl, n - 1 - a) :
                              a \in 0..(n - 1)}}
         \cup {[c EXCEPT !.body = bd] :
                  c \in {x \in ctl : x.name = "loop"}, bd \in ProgsOfSize(simple, ctl, n - 1)}

\* the programs (statement sequences) of exactly n statements in all
ProgsOfSize(simple, ctl, n) ==
    IF n = 0 THEN {<<>>}
    ELSE UNION {{<<st>> \o rest : st \in StmtsOfSize(simple, ctl, k),
                                    rest \in ProgsOfSize(simple, ctl, n - k)} : k \in 1..n}

ProgsUpTo(simple, ctl, n) == UNION {ProgsOfSize(simple, ctl, k) : k \in 1..n}

-----------------------------------------------------------------------------
(* The compiler: IRProgram.__init__ and Compiler.run_ir_passes *)

\* no file of the name given to save and to load_compiled_program
FileAbsent == [exists |-> FALSE, fpga_config |-> FALSE, program |-> <<>>]

\* nothing has been loaded
NotLoaded == [kind |-> "None", program |-> <<>>]

\* IRProgram(source) with the given list of passes still to run, and the file f on disk
InitCompiler(program, passes, f) ==
    /\ pc = passes
    /\ nodes = <<Node(<<"block", "0">>, program, 0)>>
    /\ edges = {}
    /\ loops = <<>>
    /\ done = {}
    /\ cur = NoName
    /\ ii = 0
    /\ cur_t = <<>>
    /\ last_instr_end_t = <<>>
    /\ asm = <<>>
    /\ err = "none"
    /\ _vars = <<>>
    /\ _freqs = <<>>
    /\ source = program
    /\ file = f
    /\ loaded = NotLoaded
    /\ hw_zphase_bindings = <<>>

\* the same, with no CoreScoper of its own constructed: Schedule and LintSchedule use
\* the default grouping
InitWithFile(program, passes, f) ==
    /\ InitCompiler(program, passes, f)
    /\ _dest_channels = {}
    /\ _proc_grouping = ProcGrouping
    /\ proc_groupings = <<>>

\* IRProgram(source) with the given list of passes still to run
InitWith(program, passes) == InitWithFile(program, passes, FileAbsent)

Running(p) == pc # <<>> /\ Head(pc) = p

walk == <<done, cur, ii, cur_t, last_instr_end_t>>

FlattenProgram ==
    /\ Running("FlattenProgram")
    /\ Len(nodes) = 1
    /\ nodes' = [nodes EXCEPT ![1].instructions = FlattenControlFlow(@)]
    /\ pc' = Tail(pc)
    /\ UNCHANGED <<edges, loops, walk, asm, err, _vars, _freqs, source, file, loaded, _dest_channels, _proc_grouping, proc_groupings, hw_zphase_bindings>>

MakeBasicBlocks ==
    /\ Running("MakeBasicBlocks")
    /\ Len(nodes) = 1
    /\ nodes' = MakeBasicBlocksRun(nodes)
    /\ pc' = Tail(pc)
    /\ UNCHANGED <<edges, loops, walk, asm, err, _vars, _freqs, source, file, loaded, _dest_channels, _proc_grouping, proc_groupings, hw_zphase_bindings>>

ScopeProgram ==
    /\ Running("ScopeProgram")
    /\ nodes' = ScopeProgramRun(nodes)
    /\ pc' = Tail(pc)
    /\ UNCHANGED <<edges, loops, walk, asm, err, _vars, _freqs, source, file, loaded, _dest_channels, _proc_grouping, proc_groupings, hw_zphase_bindings>>

GenerateCFG ==
    /\ Running("GenerateCFG")
    /\ edges' = GenerateCFGRun(nodes)
    /\ pc' = Tail(pc)
    /\ UNCHANGED <<nodes, loops, walk, asm, err, _vars, _freqs, source, file, loaded, _dest_channels, _proc_grouping, proc_groupings, hw_zphase_bindings>>

ResolveGates ==
    /\ Running("ResolveGates")
    /\ nodes' = ResolveGatesRun(nodes)
    /\ _freqs' = RegisterGatePulses(_freqs, GatePulsesOf(nodes), 1)
    /\ pc' = Tail(pc)
    /\ UNCHANGED <<edges, loops, walk, asm, err, _vars, source, file, loaded, _dest_channels, _proc_grouping, proc_groupings, hw_zphase_bindings>>

ResolveFPROCChannels ==
    /\ Running("ResolveFPROCChannels")
    /\ nodes' = ResolveFPROCChannelsRun(nodes)
    /\ pc' = Tail(pc)
    /\ UNCHANGED <<edges, loops, walk, asm, err, _vars, _freqs, source, file, loaded, _dest_channels, _proc_grouping, proc_groupings, hw_zphase_bindings>>

\* an exception leaves run_ir_passes: the compilation stops where it is
Raise(e) ==
    /\ err' = e
    /\ pc' = <<>>
    /\ UNCHANGED <<nodes, edges, loops, walk, asm, _vars, _freqs, source, file, loaded, _dest_channels, _proc_grouping, proc_groupings, hw_zphase_bindings>>

\* the next block nx.topological_sort yields: any block all of whose predecessors
\* have been yielded
NextInTopologicalSort(nm) ==
    /\ cur = NoName
    /\ nm \in NodeNames(nodes) \ done
    /\ Predecessors(edges, nm) \subseteq done

\* for nodename in nx.topological_sort(...) is exhausted
TopologicalSortDone == cur = NoName /\ done = NodeNames(nodes)

\* instructions with instructions[i] replaced by out
Splice(instructions, i, out) ==
    SubSeq(instructions, 1, i - 1) \o out \o SubSeq(instructions, i + 1, Len(instructions))

\* ResolveVirtualZ.run_pass, one block
ResolveVirtualZStep(nm) ==
    /\ Running("ResolveVirtualZ")
    /\ NextInTopologicalSort(nm)
    /\ LET r == ResolveVirtualZBlock(nodes, edges, nm)
       IN  IF r.err # "none" THEN Raise(r.err)
           ELSE /\ nodes' = [nodes EXCEPT ![NodeIndex(nodes, nm)].instructions = r.instructions,
                                          ![NodeIndex(nodes, nm)].ending_zphases = r.zphase_acc]
                /\ done' = done \cup {nm}
                /\ UNCHANGED <<pc, edges, loops, cur, ii, cur_t, last_instr_end_t, asm, err, _vars, _freqs, source, file, loaded, _dest_channels, _proc_grouping, proc_groupings, hw_zphase_bindings>>

ResolveVirtualZDone ==
    /\ Running("ResolveVirtualZ")
    /\ TopologicalSortDone
    /\ pc' = Tail(pc)
    /\ done' = {}
    /\ UNCHANGED <<nodes, edges, loops, cur, ii, cur_t, last_instr_end_t, asm, err, _vars, _freqs, source, file, loaded, _dest_channels, _proc_grouping, proc_groupings, hw_zphase_bindings>>

\* RegisterVarsAndFreqs.run_pass; an exception leaves what was registered before it
RegisterVarsAndFreqs ==
    /\ Running("RegisterVarsAndFreqs")
    /\ LET r == RegisterVarsAndFreqsRun(nodes, _vars, _freqs)
       IN  /\ nodes' = r.nodes
           /\ _vars' = r.vars
           /\ _freqs' = r.freqs
           /\ err' = r.err
           /\ pc' = IF r.err = "none" THEN Tail(pc) ELSE <<>>
    /\ UNCHANGED <<edges, loops, walk, asm, source, file, loaded, _dest_channels, _proc_grouping, proc_groupings, hw_zphase_bindings>>

\* RescopeVars.run_pass, one block
RescopeVarsStep(nm) ==
    /\ Running("RescopeVars")
    /\ NextInTopologicalSort(nm)
    /\ LET r == RescopeVarsBlock(nodes, _vars, nm)
       IN  /\ nodes' = r.nodes
           /\ _vars' = r.vars
           /\ err' = r.err
           /\ pc' = IF r.err = "none" THEN pc ELSE <<>>
           /\ done' = done \cup {nm}
    /\ UNCHANGED <<edges, loops, cur, ii, cur_t, last_instr_end_t, asm, _freqs, source, file, loaded, _dest_channels, _proc_grouping, proc_groupings, hw_zphase_bindings>>

RescopeVarsDone ==
    /\ Running("RescopeVars")
    /\ TopologicalSortDone
    /\ pc' = Tail(pc)
    /\ done' = {}
    /\ UNCHANGED <<nodes, edges, loops, cur, ii, cur_t, last_instr_end_t, asm, err, _vars, _freqs, source, file, loaded, _dest_channels, _proc_grouping, proc_groupings, hw_zphase_bindings>>

\* Schedule.run_pass: the top of the loop body for block nm, up to _schedule_block
ScheduleBlockStart(nm) ==
    /\ Running("Schedule")
    /\ NextInTopologicalSort(nm)
    /\ cur' = nm
    /\ ii' = 1
    /\ cur_t' = EntryCurT(nodes, edges, nm)
    /\ last_instr_end_t' = EntryLastInstrEndT(nodes, edges, nm)
    /\ loops' = IF CheckNodenameLoopstart(nm)
                THEN RegisterLoop(loops, nm, Block(nodes, nm).scope,
                                  MaxValue(EntryCurT(nodes, edges, nm)))
                ELSE loops
    /\ UNCHANGED <<pc, nodes, edges, done, asm, err, _vars, _freqs, source, file, loaded, _dest_channels, _proc_grouping, proc_groupings, hw_zphase_bindings>>

\* one turn of the while loop of _schedule_block
ScheduleStep ==
    /\ Running("Schedule")
    /\ cur # NoName
    /\ ii <= Len(Block(nodes, cur).instructions)
    /\ LET r == ScheduleInstr(Block(nodes, cur).instructions[ii], cur_t, last_instr_end_t)
       IN  IF r.err # "none" THEN Raise(r.err)
           ELSE /\ nodes' = [nodes EXCEPT ![NodeIndex(nodes, cur)].instructions =
                                              Splice(@, ii, r.out)]
                /\ ii' = ii + Len(r.out)
                /\ cur_t' = r.cur_t
                /\ last_instr_end_t' = r.last
                /\ UNCHANGED <<pc, edges, loops, done, cur, asm, err, _vars, _freqs, source, file, loaded, _dest_channels, _proc_grouping, proc_groupings, hw_zphase_bindings>>

\* LoopDeltaT with the cores' last-issue times left out
LoopDeltaTCursors(last, ct, start_time) == MaxValue(ct) - start_time

\* delta_t of the loop whose control block ends with these cursors and issue times
LoopDeltaT(last, ct, start_time) == Max(MaxValue(last), MaxValue(ct)) - start_time

\* ScheduleBlockEnd with a loop-control block reporting the times it ended at
ScheduleBlockEndNoRewind ==
    /\ Running("Schedule")
    /\ cur # NoName
    /\ ii > Len(Block(nodes, cur).instructions)
    /\ LET b == Block(nodes, cur)
           loopname == Last(b.instructions).jump_label
       IN  IF b.instructions = <<>> THEN Raise("IndexError")
           ELSE IF EndsLoop(b.instructions) /\ loopname \notin DOMAIN loops THEN Raise("KeyError")
           ELSE /\ nodes' =
                     [nodes EXCEPT
                         ![NodeIndex(nodes, cur)].block_end_t = cur_t,
                         ![NodeIndex(nodes, cur)].last_instr_end_t = last_instr_end_t]
                /\ loops' =
                     IF EndsLoop(b.instructions)
                     THEN [loops EXCEPT ![loopname].delta_t =
                              LoopDeltaT(last_instr_end_t, cur_t, loops[loopname].start_time)]
                     ELSE loops
                /\ done' = done \cup {cur}
                /\ cur' = NoName
                /\ UNCHANGED <<pc, edges, ii, cur_t, last_instr_end_t, asm, err, _vars, _freqs, source, file, loaded, _dest_channels, _proc_grouping, proc_groupings, hw_zphase_bindings>>

\* Schedule.run_pass: the rest of the loop body, after _schedule_block
ScheduleBlockEnd ==
    /\ Running("Schedule")
    /\ cur # NoName
    /\ ii > Len(Block(nodes, cur).instructions)
    /\ LET b == Block(nodes, cur)
           loopname == Last(b.instructions).jump_label
       IN  IF b.instructions = <<>> THEN Raise("IndexError")
           ELSE IF EndsLoop(b.instructions) /\ loopname \notin DOMAIN loops THEN Raise("KeyError")
           ELSE /\ nodes' =
                     IF EndsLoop(b.instructions)
                     THEN [nodes EXCEPT
                              ![NodeIndex(nodes, cur)].block_end_t =
                                  [dest \in b.scope |-> loops[loopname].start_time],
                              ![NodeIndex(nodes, cur)].last_instr_end_t =
                                  [grp \in GetGroupsByDest(b.scope) |-> loops[loopname].start_time]]
                     ELSE [nodes EXCEPT
                              ![NodeIndex(nodes, cur)].block_end_t = cur_t,
                              ![NodeIndex(nodes, cur)].last_instr_end_t = last_instr_end_t]
                /\ loops' =
                     IF EndsLoop(b.instructions)
                     THEN [loops EXCEPT ![loopname].delta_t =
                              LoopDeltaT(last_instr_end_t, cur_t, loops[loopname].start_time)]
                     ELSE loops
                /\ done' = done \cup {cur}
                /\ cur' = NoName
                /\ UNCHANGED <<pc, edges, ii, cur_t, last_instr_end_t, asm, err, _vars, _freqs, source, file, loaded, _dest_channels, _proc_grouping, proc_groupings, hw_zphase_bindings>>

ScheduleDone ==
    /\ Running("Schedule")
    /\ TopologicalSortDone
    /\ pc' = Tail(pc)
    /\ done' = {}
    /\ ii' = 0
    /\ cur_t' = <<>>
    /\ last_instr_end_t' = <<>>
    /\ UNCHANGED <<nodes, edges, loops, cur, asm, err, _vars, _freqs, source, file, loaded, _dest_channels, _proc_grouping, proc_groupings, hw_zphase_bindings>>

\* LintSchedule.run_pass: the top of the loop body for block nm, up to _lint_block
LintBlockStart(nm) ==
    /\ Running("LintSchedule")
    /\ NextInTopologicalSort(nm)
    /\ cur' = nm
    /\ ii' = 1
    /\ last_instr_end_t' = EntryLastInstrEndT(nodes, edges, nm)
    /\ UNCHANGED <<pc, nodes, edges, loops, done, cur_t, asm, err, _vars, _freqs, source, file, loaded, _dest_channels, _proc_grouping, proc_groupings, hw_zphase_bindings>>

\* LintStep with the instruction taken out of the block once it is checked
LintStepConsumes ==
    /\ Running("LintSchedule")
    /\ cur # NoName
    /\ ii <= Len(Block(nodes, cur).instructions)
    /\ LET r == LintInstr(Block(nodes, cur).instructions[ii], ProgScope(nodes), last_instr_end_t)
       IN  IF r.err # "none" THEN Raise(r.err)
           ELSE /\ nodes' = [nodes EXCEPT ![NodeIndex(nodes, cur)].instructions = RemoveAt(@, ii)]
                /\ last_instr_end_t' = r.last
                /\ UNCHANGED <<pc, edges, loops, done, cur, ii, cur_t, asm, err, _vars, _freqs, source, file, loaded, _dest_channels, _proc_grouping, proc_groupings, hw_zphase_bindings>>

\* one turn of the while loop of _lint_block
LintStep ==
    /\ Running("LintSchedule")
    /\ cur # NoName
    /\ ii <= Len(Block(nodes, cur).instructions)
    /\ LET r == LintInstr(Block(nodes, cur).instructions[ii], ProgScope(nodes), last_instr_end_t)
       IN  IF r.err # "none" THEN Raise(r.err)
           ELSE /\ ii' = ii + 1
                /\ last_instr_end_t' = r.last
                /\ UNCHANGED <<pc, nodes, edges, loops, done, cur, cur_t, asm, err, _vars, _freqs, source, file, loaded, _dest_channels, _proc_grouping, proc_groupings, hw_zphase_bindings>>

\* LintSchedule.run_pass: the rest of the loop body, after _lint_block
LintBlockEnd ==
    /\ Running("LintSchedule")
    /\ cur # NoName
    /\ ii > Len(Block(nodes, cur).instructions)
    /\ LET b == Block(nodes, cur)
           loopname == Last(b.instructions).jump_label
       IN  IF b.instructions = <<>> THEN Raise("IndexError")
           ELSE IF EndsLoop(b.instructions) /\ loopname \notin DOMAIN loops THEN Raise("KeyError")
           ELSE /\ nodes' =
                     IF EndsLoop(b.instructions)
                     THEN [nodes EXCEPT
                              ![NodeIndex(nodes, cur)].last_instr_end_t =
                                  [grp \in GetGroupsByDest(b.scope) |-> loops[loopname].start_time]]
                     ELSE [nodes EXCEPT
                              ![NodeIndex(nodes, cur)].last_instr_end_t = last_instr_end_t]
                /\ done' = done \cup {cur}
                /\ cur' = NoName
                /\ UNCHANGED <<pc, edges, loops, ii, cur_t, last_instr_end_t, asm, err, _vars, _freqs, source, file, loaded, _dest_channels, _proc_grouping, proc_groupings, hw_zphase_bindings>>

LintDone ==
    /\ Running("LintSchedule")
    /\ TopologicalSortDone
    /\ pc' = Tail(pc)
    /\ done' = {}
    /\ ii' = 0
    /\ last_instr_end_t' = <<>>
    /\ UNCHANGED <<nodes, edges, loops, cur, cur_t, asm, err, _vars, _freqs, source, file, loaded, _dest_channels, _proc_grouping, proc_groupings, hw_zphase_bindings>>

\* Compiler.compile
Compile ==
    /\ Running("compile")
    /\ asm' = CompileRun(nodes, loops)
    /\ pc' = Tail(pc)
    /\ UNCHANGED <<nodes, edges, loops, walk, err, _vars, _freqs, source, file, loaded, _dest_channels, _proc_grouping, proc_groupings, hw_zphase_bindings>>

-----------------------------------------------------------------------------
(* Flattening and control-flow graph of nested programs *)

CtlSimple == {Pulse(Chan(Q0, "freq"), 0, 1, Chan(Q0, "qdrv"))}
CtlHeaders ==
    {BranchFproc("eq", IntOp(1), Chan(Q0, "meas"), {Q0}, <<>>, <<>>),
     Loop(IntOp(1), "ge", "loopind", {Q0}, <<>>)}

InitCFG ==
    \E program \in ProgsUpTo(CtlSimple, CtlHeaders, MaxSize) :
        InitWith(program, <<"FlattenProgram", "MakeBasicBlocks", "ScopeProgram", "GenerateCFG">>)

NextCFG == FlattenProgram \/ MakeBasicBlocks \/ ScopeProgram \/ GenerateCFG

SpecCFG == InitCFG /\ [][NextCFG]_vars

\* the labels the flattener synthesized, one per JumpLabel instruction
FlatLabels == [k \in {j \in 1..Len(nodes[1].instructions) :
                         nodes[1].instructions[j].name = "jump_label"} |->
                  nodes[1].instructions[k].label]

\* C6: every label FlattenProgram synthesizes is unique in the flattened program
LabelsUnique ==
    (Len(pc) = 3 /\ Head(pc) = "MakeBasicBlocks") =>
        \A j, k \in DOMAIN FlatLabels : FlatLabels[j] = FlatLabels[k] => j = k

\* C7: after GenerateCFG the control-flow graph is acyclic
CFGAcyclic == pc = <<>> => ~HasCycle(nodes, edges)

\* the last instructions of the blocks
BlockEnds == {Last(nodes[k].instructions) : k \in {x \in 1..Len(nodes) : nodes[x].instructions # <<>>}}

\* the graph of a program with a loop and a branch has been generated
LoopAndBranchGraph ==
    /\ pc = <<>> /\ edges # {}
    /\ \E x \in BlockEnds : x.name = "jump_cond" /\ x.jump_type = "loopctrl"
    /\ \E x \in BlockEnds : x.name = "jump_fproc"

-----------------------------------------------------------------------------
(* The golden schedule: two qubits on separate cores *)

GoldenProgram(tw) ==
    <<Gate("X90", Q0, tw), Gate("X90", Q1, tw), Gate("X90", Q0, tw), Gate("X90", Q1, tw),
      Gate("read", Q0, tw)>>

GoldenPasses ==
    <<"FlattenProgram", "MakeBasicBlocks", "ScopeProgram", "ResolveGates", "GenerateCFG",
      "Schedule">>

InitGold == \E tw \in 1..MaxGateWidth : InitWith(GoldenProgram(tw), GoldenPasses)

NextGold ==
    \/ FlattenProgram
    \/ MakeBasicBlocks
    \/ ScopeProgram
    \/ ResolveGates
    \/ GenerateCFG
    \/ \E nm \in NodeNames(nodes) : ScheduleBlockStart(nm)
    \/ ScheduleStep
    \/ ScheduleBlockEnd
    \/ ScheduleDone

SpecGold == InitGold /\ [][NextGold]_vars

\* the run of the passes is over and nothing was raised
Compiled == pc = <<>> /\ err = "none"

\* the start times of the first five instructions of the only block
GoldenStarts == [k \in 1..5 |-> nodes[1].instructions[k].start_time]

\* the width in cycles of the X90 pulse
GoldenW == GetPulseNclks(nodes[1].instructions[1].twidth)

\* C2 as stated: the golden schedule is 5, 5, 5+w, 5+w, 5+2w for every pulse width w
GoldenSchedule ==
    Compiled => GoldenStarts = <<5, 5, 5 + GoldenW, 5 + GoldenW, 5 + 2 * GoldenW>>

\* C2 amended: a core issues its next pulse no sooner than pulse_load_clks after the
\* last one, so the schedule is 5, 5, 5+m, 5+m, 5+2m with m = max(w, pulse_load_clks);
\* it is the stated one exactly for the widths w >= pulse_load_clks
GoldenScheduleLoad ==
    Compiled =>
        /\ GoldenStarts = <<5, 5, 5 + Max(GoldenW, pulse_load_clks),
                            5 + Max(GoldenW, pulse_load_clks),
                            5 + 2 * Max(GoldenW, pulse_load_clks)>>
        /\ (GoldenW >= pulse_load_clks
              <=> GoldenStarts = <<5, 5, 5 + GoldenW, 5 + GoldenW, 5 + 2 * GoldenW>>)

\* a golden program with a pulse shorter than the pulse load time has been scheduled
GoldenShortPulseScheduled == Compiled /\ GoldenW < pulse_load_clks /\ GoldenStarts[3] = 8

-----------------------------------------------------------------------------
(* Scheduling, linting and lowering of programs with pulses, delays, barriers,   *)
(* ALU instructions, FPROC branches and loops                                    *)

SchedSimple ==
    {Pulse(Chan(Q0, "freq"), 0, 2, Chan(Q0, "qdrv")),
     Pulse(Chan(Q0, "readfreq"), 0, MaxWidth, Chan(Q0, "rdlo")),
     Pulse(Chan(Q1, "freq"), 0, 5, Chan(Q1, "qdrv")),
     Delay(3, NoScope),
     Barrier({Q0, Q1}, NoScope),
     Barrier({Q0}, NoScope),
     SetVar(0, "loopind", {Q0, Q1})}

SchedHeaders ==
    {BranchFproc("eq", IntOp(1), Chan(Q0, "meas"), {Q0}, <<>>, <<>>),
     BranchFproc("eq", IntOp(1), Chan(Q0, "meas"), {Q1}, <<>>, <<>>),
     Loop(IntOp(1), "ge", "loopind", {Q0}, <<>>)}

SchedPasses ==
    <<"FlattenProgram", "MakeBasicBlocks", "ScopeProgram", "GenerateCFG",
      "ResolveFPROCChannels", "Schedule", "LintSchedule", "compile">>

InitSched ==
    \E program \in ProgsUpTo(SchedSimple, SchedHeaders, SchedSize) :
        InitWith(program, SchedPasses)

NextSched ==
    \/ FlattenProgram
    \/ MakeBasicBlocks
    \/ ScopeProgram
    \/ GenerateCFG
    \/ ResolveFPROCChannels
    \/ \E nm \in NodeNames(nodes) : ScheduleBlockStart(nm)
    \/ ScheduleStep
    \/ ScheduleBlockEnd
    \/ ScheduleDone
    \/ \E nm \in NodeNames(nodes) : LintBlockStart(nm)
    \/ LintStep
    \/ LintBlockEnd
    \/ LintDone
    \/ Compile

SpecSched == InitSched /\ [][NextSched]_vars

\* Schedule is at instruction ii of block cur
Scheduling == Running("Schedule") /\ cur # NoName /\ ii <= Len(Block(nodes, cur).instructions)

\* the instruction Schedule or LintSchedule is at
CurInstr == Block(nodes, cur).instructions[ii]

\* the core that owns channel dest: the one core whose channels include it
OwnerCore(dest) == CHOOSE grp \in DOMAIN last_instr_end_t : dest \in Range(grp)

\* the least number of clock periods that cover length ns
CeilClks(length) ==
    CHOOSE n \in 0..length : n * fpga_clk_period >= length /\ (n - 1) * fpga_clk_period < length

\* the step Schedule takes on a Pulse: what it gives the pulse, the channel and the core
PulseStepEffect ==
    LET dest == CurInstr.dest
        core == OwnerCore(dest)
        start == Max(last_instr_end_t[core], cur_t[dest])
    IN  /\ Block(nodes', cur).instructions[ii].start_time = start
        /\ cur_t'[dest] = start + CeilClks(CurInstr.twidth)
        /\ last_instr_end_t'[core] = start + pulse_load_clks
        /\ DOMAIN cur_t' = DOMAIN cur_t
        /\ DOMAIN last_instr_end_t' = DOMAIN last_instr_end_t
        /\ \A d \in DOMAIN cur_t \ {dest} : cur_t'[d] = cur_t[d]
        /\ \A g \in DOMAIN last_instr_end_t \ {core} : last_instr_end_t'[g] = last_instr_end_t[g]

\* C1: on a Pulse, Schedule sets start_time to the max of the owning core's last-issue
\* time and the dest channel's cursor, the cursor to start_time + ceil(twidth / period),
\* the core's last-issue time to start_time + pulse_load_clks, and nothing else
PulseStep == [][(Scheduling /\ CurInstr.name = "pulse") => PulseStepEffect]_vars

\* Schedule has just placed a pulse later than the channel's cursor, the core being busy
PulseDelayedByCore ==
    /\ Running("Schedule") /\ cur # NoName /\ ii > 1
    /\ Block(nodes, cur).instructions[ii - 1].name = "pulse"
    /\ Block(nodes, cur).instructions[ii - 1].start_time > start_nclks
    /\ Block(nodes, cur).instructions[ii - 1].start_time + pulse_load_clks
           = last_instr_end_t[ProcGroupOf(Block(nodes, cur).instructions[ii - 1].dest)]
    /\ Cardinality(DOMAIN last_instr_end_t) > 1

\* Schedule is at the end of a block that closes a loop it has registered
ClosingLoop ==
    /\ Running("Schedule") /\ cur # NoName /\ ii > Len(Block(nodes, cur).instructions)
    /\ EndsLoop(Block(nodes, cur).instructions)
    /\ Last(Block(nodes, cur).instructions).jump_label \in DOMAIN loops

\* the time the loop-control block ends at: when every core has issued its last
\* instruction and every channel has played its last pulse or delay
ExitTime ==
    SetMax({last_instr_end_t[g] : g \in DOMAIN last_instr_end_t}
           \cup {cur_t[d] : d \in DOMAIN cur_t})

\* the inc_qclk statements of the lowered program
IncQclks ==
    {x \in UNION {Range(asm[g]) : g \in DOMAIN asm} : x.op = "inc_qclk"}

\* the loop_end instructions of the scheduled program
LoopEnds ==
    {x \in UNION {Range(nodes[k].instructions) : k \in 1..Len(nodes)} : x.name = "loop_end"}

\* every core of the scope of every loop_end carries one inc_qclk of -delta_t
LoweredLoopEnds ==
    /\ \A x \in IncQclks : x.label \in DOMAIN loops /\ x.in0 = -loops[x.label].delta_t
    /\ \A le \in LoopEnds : \A g \in GetGroupsByDest(le.scope) :
           Cardinality({k \in 1..Len(asm[g]) :
                           asm[g][k].op = "inc_qclk" /\ asm[g][k].label = le.loop_label}) = 1

ReadsFprocChannel(instr) ==
    /\ instr.name \in {"read_fproc", "jump_fproc", "alu_fproc"}
    /\ Len(instr.func_id) = 3 /\ instr.func_id[3] = "core_ind"

\* the reference channels of the FPROC channel with hardware id func_id
ReferenceChans(func_id) == {<<func_id[1], func_id[2]>>}

\* the blocks control can pass to from block nm: the next block in program order,
\* unless nm ends with an unconditional jump, and the target of the jump nm ends with
FlowSuccessors(nm) ==
    LET byind == BlocknamesByInd(nodes)
        pos == CHOOSE k \in 1..Len(byind) : byind[k] = nm
        instrs == Block(nodes, nm).instructions
        lastname == IF instrs = <<>> THEN "None" ELSE Last(instrs).name
    IN  (IF pos < Len(byind) /\ lastname # "jump_i" THEN {byind[pos + 1]} ELSE {})
        \cup (IF lastname \in {"jump_i", "jump_fproc", "jump_cond"}
                  /\ Last(instrs).jump_type # "loopctrl"
              THEN {Last(instrs).jump_label} \cap NodeNames(nodes) ELSE {})

RECURSIVE FlowClosure(_)
\* the blocks control can reach from the blocks S
FlowClosure(S) ==
    LET T == S \cup UNION {FlowSuccessors(nm) : nm \in S}
    IN  IF T = S THEN S ELSE FlowClosure(T)

\* the positions <<block, index>> of the scheduled pulses on the channels chans that
\* control passes before it reaches instruction ii of block cur
PulsesBefore(chans) ==
    {kj \in UNION {{<<k, j>> : j \in 1..Len(nodes[k].instructions)} : k \in 1..Len(nodes)} :
        /\ nodes[kj[1]].instructions[kj[2]].name = "pulse"
        /\ nodes[kj[1]].instructions[kj[2]].dest \in chans
        /\ nodes[kj[1]].instructions[kj[2]].start_time # NoTime
        /\ IF nodes[kj[1]].name = cur THEN kj[2] < ii
           ELSE cur \in FlowClosure({nodes[kj[1]].name})}

\* C10: an instruction that reads a configured FPROC channel is issued, on every core
\* of its scope, no earlier than the end of the latest pulse before it on the channel's
\* reference channels plus the channel's hold (programs without loops: one clock frame)
FprocWaitsForReference ==
    (Scheduling /\ ReadsFprocChannel(CurInstr) /\ loops = <<>>) =>
        \A kj \in PulsesBefore(ReferenceChans(CurInstr.func_id)) :
            \A g \in GetGroupsByDest(CurInstr.scope) :
                last_instr_end_t[g] >=
                    nodes[kj[1]].instructions[kj[2]].start_time
                    + CeilClks(nodes[kj[1]].instructions[kj[2]].twidth) + FPROC_MEAS_CLKS

\* C5: LintSchedule finds no violation in what Schedule scheduled
ScheduleLints == err \notin {"start time too early", "end time too early"}

\* LintSchedule has accepted a scheduled program that has an Idle and a loop
LintAccepted ==
    /\ Running("compile") /\ err = "none"
    /\ loops # <<>>
    /\ \E k \in 1..Len(nodes) : \E j \in 1..Len(nodes[k].instructions) :
           nodes[k].instructions[j].name = "idle"

-----------------------------------------------------------------------------
(* Software virtual-Z folding of programs with gates, pulses and branches *)

VZSimple ==
    {Gate("X90", Q0, 2), Gate("X90", Q1, 2), Gate("Z90", Q0, 0),
     Pulse(Chan(Q0, "freq"), 3, 2, Chan(Q0, "qdrv")),
     VirtualZ(Q0, 1), VirtualZ(Q1, 1)}

VZHeaders == {BranchFproc("eq", IntOp(1), Chan(Q0, "meas"), {Q0}, <<>>, <<>>)}

VZPasses ==
    <<"FlattenProgram", "MakeBasicBlocks", "ScopeProgram", "ResolveGates", "GenerateCFG",
      "ResolveVirtualZ">>

InitVZ == \E program \in ProgsUpTo(VZSimple, VZHeaders, VZSize) : InitWith(program, VZPasses)

NextVZ ==
    \/ FlattenProgram
    \/ MakeBasicBlocks
    \/ ScopeProgram
    \/ ResolveGates
    \/ GenerateCFG
    \/ \E nm \in NodeNames(nodes) : ResolveVirtualZStep(nm)
    \/ ResolveVirtualZDone

SpecVZ == InitVZ /\ [][NextVZ]_vars

RECURSIVE ZSumBefore(_, _, _)
\* the sum of the phases of the VirtualZ instructions on frequency f before index k
ZSumBefore(instrs, k, f) ==
    IF k <= 1 THEN 0
    ELSE ZSumBefore(instrs, k - 1, f)
         + (IF instrs[k - 1].name = "virtual_z" /\ instrs[k - 1].freq = f
            THEN instrs[k - 1].phase.ival ELSE 0)

RECURSIVE Folded(_, _)
\* instrs from index k on without its VirtualZ instructions, every pulse with the
\* phases of the VirtualZ instructions on its frequency that precede it added
Folded(instrs, k) ==
    IF k > Len(instrs) THEN <<>>
    ELSE IF instrs[k].name = "virtual_z" THEN Folded(instrs, k + 1)
    ELSE IF instrs[k].name = "pulse"
    THEN <<[instrs[k] EXCEPT !.phase =
               IntOp(instrs[k].phase.ival + ZSumBefore(instrs, k, instrs[k].freq))]>>
         \o Folded(instrs, k + 1)
    ELSE <<instrs[k]>> \o Folded(instrs, k + 1)

\* ResolveVirtualZ is about to fold the only block of a straight-line program
FoldingStraightLine == Running("ResolveVirtualZ") /\ Len(nodes) = 1 /\ done = {}

\* C8: folding a straight-line program leaves every pulse with its phase plus the
\* phases of the VirtualZ instructions on its frequency that precede it, the pulses
\* on other frequencies as they were, and no VirtualZ instruction
StraightLineFold ==
    [][FoldingStraightLine =>
          /\ err' = "none"
          /\ nodes'[1].instructions = Folded(nodes[1].instructions, 1)]_vars

\* a straight-line program is folded: a Q0 pulse of phase 3 that follows a Z90 has
\* phase 5, a Q1 pulse after it has phase 0
StraightLineFolded ==
    /\ Compiled /\ Len(nodes) = 1
    /\ \E j, k \in 1..Len(nodes[1].instructions) :
           /\ j < k
           /\ nodes[1].instructions[j].name = "pulse"
           /\ nodes[1].instructions[j].freq = Chan(Q0, "freq")
           /\ nodes[1].instructions[j].phase.ival = 5
           /\ nodes[1].instructions[k].name = "pulse"
           /\ nodes[1].instructions[k].freq = Chan(Q1, "freq")
           /\ nodes[1].instructions[k].phase.ival = 0

\* two predecessors of block nm ended with different phases of one frequency
PredsDisagree(nm) ==
    \E p, q \in Predecessors(edges, nm) :
        \E f \in DOMAIN Block(nodes, p).ending_zphases \cap DOMAIN Block(nodes, q).ending_zphases :
            Block(nodes, p).ending_zphases[f] # Block(nodes, q).ending_zphases[f]

\* C9: ResolveVirtualZ folds no block whose predecessors disagree on the phase of a
\* frequency: it ends with no error only if there is no such block, and it raises
\* ValueError at such a block
NoPhaseGuess ==
    /\ Running("ResolveVirtualZ") => \A nm \in done : ~PredsDisagree(nm)
    /\ Compiled => \A nm \in NodeNames(nodes) : ~PredsDisagree(nm)
    /\ err = "ValueError" =>
           \E nm \in NodeNames(nodes) \ done :
               Predecessors(edges, nm) \subseteq done /\ PredsDisagree(nm)

\* the compilation has failed at a block whose predecessors disagree
PhaseMismatchRaised == err = "ValueError" /\ pc = <<>>

-----------------------------------------------------------------------------
(* Linting of user-scheduled programs (no loops: only Schedule registers them) *)

LintSimple ==
    {TimedPulse(Chan(Q0, "freq"), 0, 2, Chan(Q0, "qdrv"), 8),
     TimedPulse(Chan(Q0, "freq"), 0, 2, Chan(Q0, "qdrv"), MaxStart),
     TimedPulse(Chan(Q1, "freq"), 0, 2, Chan(Q1, "qdrv"), 5),
     Idle(MaxStart, {Q0, Q1}),
     SetVar(0, "v", {Q0})}

LintHeaders == {BranchFproc("eq", IntOp(1), Chan(Q0, "meas"), {Q0}, <<>>, <<>>)}

LintPasses ==
    <<"FlattenProgram", "MakeBasicBlocks", "ScopeProgram", "GenerateCFG", "LintSchedule">>

InitLint ==
    \E program \in ProgsUpTo(LintSimple, LintHeaders, LintSize) : InitWith(program, LintPasses)

NextLint ==
    \/ FlattenProgram
    \/ MakeBasicBlocks
    \/ ScopeProgram
    \/ GenerateCFG
    \/ \E nm \in NodeNames(nodes) : LintBlockStart(nm)
    \/ LintStep
    \/ LintBlockEnd
    \/ LintDone

SpecLint == InitLint /\ [][NextLint]_vars

\* the cores an instruction runs on, each named by its qubit
RunsOn(instr) ==
    IF instr.name = "pulse" THEN {instr.dest[1]} ELSE {d[1] : d \in instr.scope \ NoScope}

\* the instruction is timed before the running last-issue time of one of its cores
TimedTooEarly(instr, running) ==
    \/ instr.name = "pulse" /\ \E c \in RunsOn(instr) : instr.start_time < running[c]
    \/ instr.name = "idle" /\ \E c \in RunsOn(instr) : instr.end_time < running[c]

\* the running last-issue times after the instruction
RunningAfter(instr, running) ==
    [c \in DOMAIN running |->
        IF c \notin RunsOn(instr) THEN running[c]
        ELSE IF instr.name = "pulse" THEN instr.start_time + pulse_load_clks
        ELSE IF instr.name = "idle" THEN instr.end_time + pulse_load_clks
        ELSE IF instr.name \in {"alu", "set_var", "loop_end"} THEN running[c] + alu_instr_clks
        ELSE IF instr.name \in {"jump_fproc", "read_fproc", "alu_fproc"}
        THEN running[c] + jump_fproc_clks
        ELSE IF instr.name \in {"jump_i", "jump_cond"} THEN running[c] + jump_cond_clks
        ELSE running[c]]

RECURSIVE WalkBlock(_, _, _)
\* the walk of instrs from index k on: whether an instruction is timed too early, and
\* the running last-issue times at the end
WalkBlock(instrs, k, st) ==
    IF k > Len(instrs) THEN st
    ELSE WalkBlock(instrs, k + 1,
             [early |-> st.early \/ TimedTooEarly(instrs[k], st.running),
              running |-> RunningAfter(instrs[k], st.running)])

RECURSIVE WalkBlocks(_, _, _)
\* the walk of the blocks order[k..], ends giving the running last-issue times at the
\* end of each block walked: whether an instruction of theirs is timed too early
WalkBlocks(order, k, ends) ==
    IF k > Len(order) THEN FALSE
    ELSE LET b == Block(nodes, order[k])
             entry == [c \in {d[1] : d \in b.scope} |->
                          SetMax({start_nclks} \cup
                                 {ends[p][c] : p \in {x \in Predecessors(edges, order[k]) :
                                                          c \in DOMAIN ends[x]}})]
             w == WalkBlock(b.instructions, 1, [early |-> FALSE, running |-> entry])
         IN  w.early
             \/ WalkBlocks(order, k + 1,
                    [nm \in DOMAIN ends \cup {order[k]} |->
                        IF nm = order[k] THEN w.running ELSE ends[nm]])

LintNonMutating ==
    [][Running("LintSchedule") => (nodes' = nodes /\ edges' = edges /\ loops' = loops)]_vars

\* C19: LintSchedule changes neither the instructions, nor their times, nor the scope
\* and block_end_t of the blocks, nor the loop table, whether it accepts or raises; it
\* writes into every block it has walked the last_instr_end_t its walk ended with
LintWritesIssueTimesOnly ==
    [][Running("LintSchedule") =>
          /\ edges' = edges /\ loops' = loops
          /\ Len(nodes') = Len(nodes)
          /\ \A k \in 1..Len(nodes) :
                /\ [nodes'[k] EXCEPT !.last_instr_end_t = nodes[k].last_instr_end_t] = nodes[k]
                /\ nodes'[k].last_instr_end_t # nodes[k].last_instr_end_t =>
                      /\ nodes[k].name = cur /\ cur' = NoName /\ err' = "none"
                      /\ nodes'[k].last_instr_end_t = last_instr_end_t]_vars

\* LintSchedule has accepted a program of timed pulses in two blocks or more and has
\* written the last issue times into each
LintWroteIssueTimes ==
    /\ pc = <<>> /\ err = "none" /\ Len(nodes) >= 2
    /\ \A k \in 1..Len(nodes) : nodes[k].last_instr_end_t # <<>>
    /\ \E instr \in UNION {Range(nodes[k].instructions) : k \in 1..Len(nodes)} :
           instr.name = "pulse" /\ instr.start_time # NoTime

-----------------------------------------------------------------------------
(* Flattening of nested branches and loops *)

FlatSimple == {Pulse(Chan(Q0, "freq"), 0, 1, Chan(Q0, "qdrv")), Gate("alu_op", Q0, 1)}
FlatHeaders ==
    {BranchFproc("eq", IntOp(1), Chan(Q0, "meas"), {Q0}, <<>>, <<>>),
     BranchVar("ge", VarOp("v"), "w", {Q1}, <<>>, <<>>),
     Loop(IntOp(1), "ge", "loopind", {Q0}, <<>>)}

InitFlat ==
    \E program \in ProgsUpTo(FlatSimple, FlatHeaders, FlatSize) :
        InitWith(program, <<"FlattenProgram">>)

NextFlat == FlattenProgram

SpecFlat == InitFlat /\ [][NextFlat]_vars

RECURSIVE FlatLen(_)
\* the number of instructions the layout gives the statements of program
FlatLen(program) ==
    IF program = <<>> THEN 0
    ELSE LET s == Head(program)
             own == IF s.name \in {"branch_fproc", "branch_var"}
                    THEN 4 + FlatLen(s.false)
                           + (IF FlatLen(s.true) > 0 THEN 1 + FlatLen(s.true) ELSE 0)
                    ELSE IF s.name = "loop" THEN 4 + FlatLen(s.body)
                    ELSE IF s.name = "alu_op" THEN 0
                    ELSE 1
         IN  own + FlatLen(Tail(program))

\* the kind of a synthesized label: the word before its index
LabelKind(l) == IF Len(l) >= 2 THEN l[Len(l) - 1] ELSE "None"

\* the jump o carries the condition fields of the statement s
CarriesCondition(s, o) ==
    /\ o.alu_cond = s.alu_cond /\ o.cond_lhs = s.cond_lhs /\ o.scope = s.scope
    /\ (s.name = "branch_fproc" => o.name = "jump_fproc" /\ o.func_id = s.func_id)
    /\ (s.name # "branch_fproc" => o.name = "jump_cond" /\ o.cond_rhs = s.cond_rhs)

RECURSIVE FlatOf(_, _, _)
\* o is the branch s laid out as jump, false label, false part, jump to the end,
\* true label and true part (when there is one), end label
BranchLayout(s, o, kind) ==
    LET F == FlatLen(s.false)
        T == FlatLen(s.true)
        le == o[Len(o)]
    IN  /\ FlatOf(s.false, SubSeq(o, 3, 2 + F), kind)
        /\ T > 0 => FlatOf(s.true, SubSeq(o, 5 + F, 4 + F + T), kind)
        /\ kind = "loop" =>
              \A k \in {2, Len(o)} \cup (IF T > 0 THEN {4 + F} ELSE {}) :
                  Last(o[k].label) # "loopctrl"
        /\ kind = "branch" =>
              /\ CarriesCondition(s, o[1])
              /\ o[2].name = "jump_label" /\ LabelKind(o[2].label) = "false"
              /\ o[3 + F].name = "jump_i" /\ o[3 + F].jump_label = le.label
              /\ le.name = "jump_label" /\ LabelKind(le.label) = "end"
              /\ IF T > 0
                 THEN /\ o[4 + F].name = "jump_label" /\ LabelKind(o[4 + F].label) = "true"
                      /\ o[1].jump_label = o[4 + F].label
                 ELSE o[1].jump_label = le.label

\* o is the loop s laid out as loop label, barrier, body, loop end, jump back
LoopLayout(s, o, kind) ==
    LET B == FlatLen(s.body)
        l == o[1].label
    IN  /\ FlatOf(s.body, SubSeq(o, 3, 2 + B), kind)
        /\ kind = "loop" =>
              /\ o[1].name = "jump_label" /\ Last(l) = "loopctrl"
              /\ o[2].name = "barrier" /\ o[2].qubit = s.scope
              /\ o[3 + B].name = "loop_end" /\ o[3 + B].loop_label = l
              /\ CarriesCondition(s, o[4 + B])
              /\ o[4 + B].jump_label = l /\ o[4 + B].jump_type = "loopctrl"

\* out lays the statements of program out one after the other; kind names the
\* composites whose layout is looked at
FlatOf(program, out, kind) ==
    IF program = <<>> THEN out = <<>>
    ELSE LET s == Head(program)
             n == FlatLen(<<s>>)
             o == SubSeq(out, 1, n)
         IN  /\ Len(out) >= n
             /\ IF s.name \in {"branch_fproc", "branch_var"} THEN BranchLayout(s, o, kind)
                ELSE IF s.name = "loop" THEN LoopLayout(s, o, kind)
                ELSE TRUE
             /\ FlatOf(Tail(program), SubSeq(out, n + 1, Len(out)), kind)

\* the flattened program, once FlattenProgram has run
Flattened == nodes[1].instructions

\* C11: FlattenProgram lays every branch out as the conditional jump with the branch's
\* condition, aimed at the true label or, with nothing in the flattened true part, at
\* the end label; the false label, the false part and a jump to the end label; the true
\* label and the true part when there is one; the end label. No branch or loop is left.
BranchesFlattened ==
    [][Running("FlattenProgram") =>
          /\ FlatOf(nodes[1].instructions, nodes'[1].instructions, "branch")
          /\ \A k \in 1..Len(nodes'[1].instructions) :
                nodes'[1].instructions[k].name \notin {"branch_fproc", "branch_var", "loop"}]_vars

\* a nested branch with nothing in its true part has been flattened next to one with a
\* true part
NestedBranchFlattened ==
    /\ pc = <<>>
    /\ \E k \in 1..Len(Flattened) :
          /\ Flattened[k].name \in {"jump_fproc", "jump_cond"}
          /\ LabelKind(Flattened[k].jump_label) = "end"
          /\ Len(Flattened[k].jump_label) > 2
    /\ \E k \in 1..Len(Flattened) :
          /\ Flattened[k].name \in {"jump_fproc", "jump_cond"}
          /\ LabelKind(Flattened[k].jump_label) = "true"

\* C12: FlattenProgram lays every loop out as its label, a barrier over the loop's scope,
\* the body, LoopEnd and a JumpCond back to the label flagged as loop control; the label
\* of a loop ends in loopctrl and no label of a branch does
LoopsFlattened ==
    [][Running("FlattenProgram") =>
          FlatOf(nodes[1].instructions, nodes'[1].instructions, "loop")]_vars

\* a loop inside a branch has been flattened
LoopInBranchFlattened ==
    /\ pc = <<>>
    /\ \E k \in 1..Len(Flattened) :
          /\ Flattened[k].name = "loop_end"
          /\ Len(Flattened[k].loop_label) > 3
          /\ Flattened[k].loop_label[1] \in {"true", "false"}


-----------------------------------------------------------------------------
(* Scoping and rescoping of programs with variables *)

\* the declarations every program of the family starts with
ScopeDeclarations == <<Declare("a", {Q0}), Declare("b", {Q1})>>

ScopeSimple ==
    {Pulse(FreqKey(4), 0, 2, Chan(Q0, "qdrv")),
     [Pulse(FreqKey(4), 0, 2, Chan(Q1, "qdrv")) EXCEPT !.phase = VarOp("a")],
     SetVar(0, "a", NoScope),
     Alu("add", IntOp(1), "b", "b", NoScope),
     Alu("add", VarOp("a"), "b", "a", NoScope),
     Barrier(NoScope, NoScope),
     [Delay(3, NoScope) EXCEPT !.qubit = {Q0}]}

ScopeHeaders ==
    {BranchVar("ge", VarOp("a"), "b", {Q1}, <<>>, <<>>),
     BranchFproc("eq", VarOp("b"), Chan(Q0, "meas"), {Q0}, <<>>, <<>>)}

\* the scoper is run a second time after the rescoping
ScopePasses ==
    <<"FlattenProgram", "MakeBasicBlocks", "ScopeProgram", "RegisterVarsAndFreqs",
      "GenerateCFG", "RescopeVars", "ScopeProgram", "RescopeVars">>

InitScope ==
    \E program \in ProgsUpTo(ScopeSimple, ScopeHeaders, ScopeSize) :
        InitWith(ScopeDeclarations \o program, ScopePasses)

NextScope ==
    \/ FlattenProgram
    \/ MakeBasicBlocks
    \/ ScopeProgram
    \/ RegisterVarsAndFreqs
    \/ GenerateCFG
    \/ \E nm \in NodeNames(nodes) : RescopeVarsStep(nm)
    \/ RescopeVarsDone

SpecScope == InitScope /\ [][NextScope]_vars

\* the variables an instruction references
ReferencedVars(instr) ==
    (IF instr.name \in {"declare", "set_var", "read_fproc"} THEN {instr.var} ELSE {})
    \cup (IF instr.name = "alu" THEN {instr.rhs, instr.out} ELSE {})
    \cup (IF instr.name = "alu" /\ instr.lhs.isvar THEN {instr.lhs.vname} ELSE {})
    \cup (IF instr.name = "jump_cond" THEN {instr.cond_rhs} ELSE {})
    \cup (IF instr.name \in {"jump_cond", "jump_fproc"} /\ instr.cond_lhs.isvar
          THEN {instr.cond_lhs.vname} ELSE {})
    \cup (IF instr.name = "pulse" /\ instr.phase.isvar THEN {instr.phase.vname} ELSE {})

\* the channels an instruction acts on: its scope, or the dest of a pulse
ActsOn(instr) == IF instr.name = "pulse" THEN {instr.dest} ELSE instr.scope

\* all instructions of the program
AllInstrs == UNION {Range(nodes[k].instructions) : k \in 1..Len(nodes)}

\* RegisterVarsAndFreqs and RescopeVars have both run
Rescoped == err = "none" /\ Len(pc) <= 2 /\ cur = NoName /\ done = {}

\* C13: after RegisterVarsAndFreqs and RescopeVars the scope of every variable contains
\* the scope of every instruction that references it
VarScopeContainsUses ==
    Rescoped =>
        \A instr \in AllInstrs : \A v \in ReferencedVars(instr) :
            ActsOn(instr) \subseteq _vars[v].scope


\* C14: no step of the scoping and rescoping passes shrinks the scope of a registered
\* variable: its scope after the step is a superset of its scope before
VarScopeOnlyGrows ==
    [][\A v \in DOMAIN _vars :
          v \in DOMAIN _vars' /\ _vars[v].scope \subseteq _vars'[v].scope]_vars

\* rescoping has grown variable a beyond the scope it was declared with, on a jump and
\* on a pulse
VarScopeGrown ==
    /\ Rescoped
    /\ "a" \in DOMAIN _vars
    /\ GetScope({Q0}) \cup GetScope({Q1}) \subseteq _vars["a"].scope
    /\ \E instr \in AllInstrs : instr.name = "jump_cond"
    /\ \E instr \in AllInstrs : instr.name = "pulse" /\ instr.phase.isvar


\* the scope of every block and of every instruction in it
ScopesOf(ns) ==
    [k \in 1..Len(ns) |->
        [name |-> ns[k].name, scope |-> ns[k].scope,
         instructions |-> [j \in 1..Len(ns[k].instructions) |-> ns[k].instructions[j].scope]]]

\* the scoper runs for the second time
SecondScoping == err = "none" /\ pc # <<>> /\ Len(pc) <= 2

\* C15: a second run of ScopeProgram and RescopeVars changes no instruction scope, no
\* block scope and no variable scope
SecondScopingNoOp ==
    [][SecondScoping => (ScopesOf(nodes') = ScopesOf(nodes) /\ _vars' = _vars)]_vars


\* the channels in the scope an instruction has, none while its scope is None
ScopeGiven(instr) == IF ActsOn(instr) = NoScope THEN {} ELSE ActsOn(instr)

\* ScopeProgram has run and Schedule has not, between two passes
ScopedNotScheduled == err = "none" /\ Len(pc) <= 5 /\ cur = NoName /\ done = {}

\* C16: from the end of ScopeProgram on, the scope of every block is the union of the
\* scopes of its instructions, so the scope of every instruction is inside it
BlockScopeIsUnion ==
    ScopedNotScheduled =>
        \A k \in 1..Len(nodes) :
            nodes[k].scope = UNION {ScopeGiven(instr) : instr \in Range(nodes[k].instructions)}

\* the first run of ScopeProgram
FirstScoping == Running("ScopeProgram") /\ Len(pc) = 6

\* the scope is a set of channels
Concrete(scope) == scope # NoScope /\ \A c \in scope : Len(c) = 2

\* C17 as stated: after ScopeProgram every instruction with a dest, a qubit or an
\* explicit scope has a concrete scope, not None
AllScopesConcrete ==
    [][FirstScoping =>
          \A k \in 1..Len(nodes) : \A j \in 1..Len(nodes[k].instructions) :
              LET before == nodes[k].instructions[j]
                  after == nodes'[k].instructions[j]
              IN  (before.name = "pulse" \/ before.scope # NoScope \/ before.qubit # NoScope)
                      => Concrete(after.scope)]_vars

\* C17: after ScopeProgram every instruction given a qubit or a scope has a concrete
\* scope; a Pulse keeps no scope of its own and its dest is in the scope of its block; a
\* Barrier or Delay given neither has the scope of the whole program
ScopesConcreteButPulse ==
    [][FirstScoping =>
          \A k \in 1..Len(nodes) : \A j \in 1..Len(nodes[k].instructions) :
              LET before == nodes[k].instructions[j]
                  after == nodes'[k].instructions[j]
              IN  /\ before.name = "pulse" =>
                        after.scope = NoScope /\ before.dest \in nodes'[k].scope
                  /\ (before.name # "pulse" /\ (before.scope # NoScope \/ before.qubit # NoScope))
                        => Concrete(after.scope)
                  /\ (before.name \in {"barrier", "delay"} /\ before.scope = NoScope
                        /\ before.qubit = NoScope)
                        => after.scope = ProgScope(nodes')]_vars

\* ScopeProgram has scoped a program with a pulse, a delay given a qubit and the
\* declarations, which are given a scope
PulseAndDelayScoped ==
    /\ err = "none" /\ Len(pc) = 5
    /\ \E instr \in AllInstrs : instr.name = "pulse" /\ instr.scope = NoScope
    /\ \E instr \in AllInstrs : instr.name = "delay" /\ instr.qubit = {Q0}
                                  /\ instr.scope = GetScope({Q0})
    /\ \E instr \in AllInstrs : instr.name = "declare" /\ Concrete(instr.scope)


-----------------------------------------------------------------------------
(* Registration of frequencies *)

\* declarations of Q0.freq with the qchip value and with another one, a declaration
\* and a pulse of a frequency given by its number, a pulse naming Q0.freq, and gates
\* whose pulses name Q0.freq and Q0.readfreq
FreqSimple ==
    {DeclareFreq(4, <<"Q0", "freq">>, {Q0}),
     DeclareFreq(5, <<"Q0", "freq">>, {Q0}),
     DeclareFreq(5, NoName, {Q0}),
     Pulse(FreqKey(5), 0, 2, Chan(Q0, "qdrv")),
     Pulse(<<"Q0", "freq">>, 0, 2, Chan(Q0, "qdrv")),
     Gate("X90", Q0, 2),
     Gate("read", Q0, 2)}

FreqPasses ==
    <<"FlattenProgram", "MakeBasicBlocks", "ScopeProgram", "RegisterVarsAndFreqs", "ResolveGates">>

InitFreq == \E program \in ProgsUpTo(FreqSimple, {}, FreqSize) : InitWith(program, FreqPasses)

NextFreq ==
    \/ FlattenProgram
    \/ MakeBasicBlocks
    \/ ScopeProgram
    \/ RegisterVarsAndFreqs
    \/ ResolveGates

SpecFreq == InitFreq /\ [][NextFreq]_vars

\* the registrations RegisterVarsAndFreqs is asked for, in program order: key and value
\* of every declare_freq and of every pulse of a frequency given by its number
Registrations(ns) ==
    Concat([k \in 1..Len(ns) |->
        Concat([j \in 1..Len(ns[k].instructions) |->
            LET instr == ns[k].instructions[j]
            IN  IF instr.name = "declare_freq"
                THEN <<[key |-> IF instr.freqname # NoName THEN instr.freqname ELSE instr.freq,
                        freq |-> FreqOf(instr.freq)]>>
                ELSE IF instr.name = "pulse" /\ ~IsFreqName(instr.freq)
                THEN <<[key |-> instr.freq, freq |-> FreqOf(instr.freq)]>>
                ELSE <<>>])])

\* the value of the first registration of the key
FirstValue(regs, key) ==
    regs[CHOOSE i \in 1..Len(regs) :
            regs[i].key = key /\ \A j \in 1..(i - 1) : regs[j].key # key].freq

\* a key is registered a second time with another value
RegisteredTwice(regs) ==
    \E i, j \in 1..Len(regs) : i < j /\ regs[i].key = regs[j].key /\ regs[i].freq # regs[j].freq

\* C18: a frequency name keeps the value of its first registration: the table
\* RegisterVarsAndFreqs leaves holds for every key the value of the first registration
\* in the program, a second registration with another value raises, and ResolveGates
\* raises nothing and changes no registered value, whatever the qchip holds
FreqKeepsFirstValue ==
    [][/\ \A key \in DOMAIN _freqs : key \in DOMAIN _freqs' /\ _freqs'[key] = _freqs[key]
       /\ Running("RegisterVarsAndFreqs") =>
             /\ \A key \in DOMAIN _freqs' :
                    /\ \E i \in 1..Len(Registrations(nodes)) : Registrations(nodes)[i].key = key
                    /\ _freqs'[key] = FirstValue(Registrations(nodes), key)
             /\ RegisteredTwice(Registrations(nodes)) => err' = "Exception"
             /\ err' = "none" =>
                    \A i \in 1..Len(Registrations(nodes)) :
                        /\ Registrations(nodes)[i].key \in DOMAIN _freqs'
                        /\ _freqs'[Registrations(nodes)[i].key] = Registrations(nodes)[i].freq
       /\ Running("ResolveGates") =>
             /\ err' = "none"
             /\ \A i \in 1..Len(GatePulsesOf(nodes)) :
                    LET pulse == GatePulsesOf(nodes)[i]
                    IN  pulse.kind = "GatePulse" =>
                            /\ pulse.freqname \in DOMAIN _freqs'
                            /\ pulse.freqname \notin DOMAIN _freqs =>
                                   _freqs'[pulse.freqname] = pulse.freq]_vars

\* ResolveGates has resolved a gate whose pulse names Q0.freq, registered before with a
\* value that is not the one of the qchip
GateFreqDiffers ==
    /\ err = "none" /\ pc = <<>>
    /\ <<"Q0", "freq">> \in DOMAIN _freqs
    /\ _freqs[<<"Q0", "freq">>] # QChipFreq(<<"Q0", "freq">>)
    /\ \E instr \in AllInstrs :
           instr.name = "pulse" /\ instr.freq = <<"Q0", "freq">> /\ instr.twidth = 2
    /\ \E instr \in AllInstrs : instr.name = "barrier"

\* RegisterVarsAndFreqs has raised on a second declaration of Q0.freq and the table
\* holds the value of the first
SecondDeclarationRaised ==
    /\ err = "Exception"
    /\ <<"Q0", "freq">> \in DOMAIN _freqs
    /\ \E instr \in AllInstrs :
           instr.name = "declare_freq" /\ instr.freqname = <<"Q0", "freq">>
               /\ FreqOf(instr.freq) # _freqs[<<"Q0", "freq">>]


-----------------------------------------------------------------------------
(* Independence of the order in which the blocks are walked *)

RECURSIVE ScheduleBlockFrom(_, _, _, _)
\* _schedule_block from instruction i on, run to its end
ScheduleBlockFrom(instructions, i, ct, last) ==
    IF i > Len(instructions)
    THEN [err |-> "none", instructions |-> instructions, cur_t |-> ct, last |-> last]
    ELSE LET r == ScheduleInstr(instructions[i], ct, last)
         IN  IF r.err # "none"
             THEN [err |-> r.err, instructions |-> instructions, cur_t |-> ct, last |-> last]
             ELSE ScheduleBlockFrom(Splice(instructions, i, r.out), i + Len(r.out), r.cur_t, r.last)

\* the loop body of Schedule.run_pass for block nm, on the blocks ns and the loops ls
ScheduleBlock(st, es, nm) ==
    LET ls == IF CheckNodenameLoopstart(nm)
              THEN RegisterLoop(st.loops, nm, Block(st.nodes, nm).scope,
                                MaxValue(EntryCurT(st.nodes, es, nm)))
              ELSE st.loops
        r == ScheduleBlockFrom(Block(st.nodes, nm).instructions, 1,
                               EntryCurT(st.nodes, es, nm), EntryLastInstrEndT(st.nodes, es, nm))
        b == Block(st.nodes, nm)
        k == NodeIndex(st.nodes, nm)
        loopname == Last(r.instructions).jump_label
    IN  IF st.err # "none" THEN st
        ELSE IF r.err # "none" THEN [st EXCEPT !.err = r.err]
        ELSE IF r.instructions = <<>> THEN [st EXCEPT !.err = "IndexError"]
        ELSE IF EndsLoop(r.instructions) /\ loopname \notin DOMAIN ls
        THEN [st EXCEPT !.err = "KeyError"]
        ELSE IF EndsLoop(r.instructions)
        THEN [err |-> "none",
              nodes |-> [st.nodes EXCEPT
                            ![k].instructions = r.instructions,
                            ![k].block_end_t = [dest \in b.scope |-> ls[loopname].start_time],
                            ![k].last_instr_end_t =
                                [grp \in GetGroupsByDest(b.scope) |-> ls[loopname].start_time]],
              loops |-> [ls EXCEPT ![loopname].delta_t =
                            LoopDeltaT(r.last, r.cur_t, ls[loopname].start_time)]]
        ELSE [err |-> "none",
              nodes |-> [st.nodes EXCEPT ![k].instructions = r.instructions,
                                         ![k].block_end_t = r.cur_t,
                                         ![k].last_instr_end_t = r.last],
              loops |-> ls]

RECURSIVE ScheduleInOrder(_, _, _, _)
\* Schedule.run_pass with the blocks taken in the order of byind from its i-th on
ScheduleInOrder(st, es, byind, i) ==
    IF i > Len(byind) THEN st
    ELSE ScheduleInOrder(ScheduleBlock(st, es, byind[i]), es, byind, i + 1)

\* the blocks before Schedule runs
Unscheduled ==
    ResolveFPROCChannelsRun(ScopeProgramRun(MakeBasicBlocksRun(
        <<Node(<<"block", "0">>, FlattenControlFlow(source), 0)>>)))

\* the program scheduled with the blocks taken in the order they were made
InOrder ==
    ScheduleInOrder([err |-> "none", nodes |-> Unscheduled, loops |-> <<>>],
                    GenerateCFGRun(Unscheduled), BlocknamesByInd(Unscheduled), 1)

-----------------------------------------------------------------------------
(* CompiledProgram.save, CompiledProgram.load and load_compiled_program (compiler.py) *)

\* CompiledProgram.save: open(filename) opens the file for reading, so it has to
\* exist, and json.dumps is given the file as a second positional argument, which
\* it does not take; nothing is written either way
Save(program, f) ==
    IF ~f.exists THEN [err |-> "FileNotFoundError", file |-> f]
    ELSE [err |-> "TypeError", file |-> f]

\* load_compiled_program: the FPGAConfig of the file is all it returns
LoadCompiledProgram(f) ==
    IF ~f.exists THEN [err |-> "FileNotFoundError", loaded |-> NotLoaded]
    ELSE IF ~f.fpga_config THEN [err |-> "KeyError", loaded |-> NotLoaded]
    ELSE [err |-> "none", loaded |-> [kind |-> "FPGAConfig", program |-> <<>>]]

CompiledProgramSave ==
    /\ Running("save")
    /\ LET r == Save(asm, file)
       IN  IF r.err # "none"
           THEN /\ file' = r.file
                /\ err' = r.err
                /\ pc' = <<>>
                /\ UNCHANGED <<nodes, edges, loops, walk, asm, _vars, _freqs, source, loaded, _dest_channels, _proc_grouping, proc_groupings, hw_zphase_bindings>>
           ELSE /\ file' = r.file
                /\ pc' = Tail(pc)
                /\ UNCHANGED <<nodes, edges, loops, walk, asm, err, _vars, _freqs, source, loaded, _dest_channels, _proc_grouping, proc_groupings, hw_zphase_bindings>>

\* CompiledProgram.load
CompiledProgramLoad ==
    /\ Running("load")
    /\ Raise("NotImplementedError")

LoadCompiledProgramCall ==
    /\ Running("load_compiled_program")
    /\ LET r == LoadCompiledProgram(file)
       IN  IF r.err # "none" THEN Raise(r.err)
           ELSE /\ loaded' = r.loaded
                /\ pc' = Tail(pc)
                /\ UNCHANGED <<nodes, edges, loops, walk, asm, err, _vars, _freqs, source, file, _dest_channels, _proc_grouping, proc_groupings, hw_zphase_bindings>>

\* the files there can be under the name: none, one without and one with an
\* fpga_config entry
Files ==
    {FileAbsent,
     [exists |-> TRUE, fpga_config |-> FALSE, program |-> <<>>],
     [exists |-> TRUE, fpga_config |-> TRUE, program |-> <<>>]}

\* a program is compiled and then saved and loaded back, or loaded by either loader
SaveScripts ==
    {SchedPasses \o <<"save", "load_compiled_program">>,
     SchedPasses \o <<"save", "load">>,
     SchedPasses \o <<"load_compiled_program">>,
     SchedPasses \o <<"load">>}

InitSave ==
    \E program \in ProgsUpTo(SchedSimple, SchedHeaders, SaveSize), f \in Files,
       script \in SaveScripts :
        InitWithFile(program, script, f)

NextSave ==
    \/ NextSched
    \/ CompiledProgramSave
    \/ CompiledProgramLoad
    \/ LoadCompiledProgramCall

SpecSave == InitSave /\ [][NextSave]_vars

\* C21: once a compiled program has been saved and loaded back, what was loaded is the
\* program that was compiled, core by core
SaveLoadRoundTrip ==
    (pc = <<>> /\ asm # <<>>) =>
        /\ err = "none"
        /\ loaded.kind = "CompiledProgram"
        /\ loaded.program = asm

-----------------------------------------------------------------------------
\* CoreScoper (ir.py): the grouping of channels into cores

\* the largest number of destination channels a CoreScoper is constructed with
ScoperSize == 4

\* CoreScoper.__init__: the proc_groupings dictionary is generated on construction
CoreScoperInit ==
    /\ Running("CoreScoper")
    /\ proc_groupings' = GenerateProcGroups(_dest_channels, _proc_grouping)
    /\ pc' = Tail(pc)
    /\ UNCHANGED <<nodes, edges, loops, done, cur, ii, cur_t, last_instr_end_t, asm, err,
                   _vars, _freqs, source, file, loaded, _dest_channels, _proc_grouping, hw_zphase_bindings>>

\* the channels of two qubits, and one channel that no template names
ScoperChannels ==
    {q \o <<c>> : q \in {Q0, Q1}, c \in {"qdrv", "rdrv", "rdlo"}} \cup {Q0 \o <<"cdrv">>}

\* one core per qubit (the default), one core per channel, and the grouping of
\* test_scoper_procgroup_gen_bychan: a channel belongs to one physical core, so no
\* pattern stands in two templates
Groupings ==
    {ProcGrouping,
     <<<<"qdrv">>, <<"rdrv">>, <<"rdlo">>>>,
     <<<<"qdrv">>, <<"rdrv", "rdlo">>>>}

InitScoper ==
    /\ InitCompiler(<<>>, <<"CoreScoper">>, FileAbsent)
    /\ _dest_channels \in {d \in SUBSET ScoperChannels : Cardinality(d) <= ScoperSize}
    /\ _proc_grouping \in Groupings
    /\ proc_groupings = <<>>

NextScoper == CoreScoperInit

SpecScoper == InitScoper /\ [][NextScoper]_vars

\* the template formatted with the qubit that pattern k of it parses out of dest
FormattedTemplate(grp, k, dest) ==
    [j \in 1..Len(grp) |-> Format(grp[j], Parse(grp[k], dest))]

\* C23: a constructed CoreScoper maps every destination channel that a pattern of a
\* template parses to that template formatted, pattern by pattern, with the channel's
\* qubit; a mapped channel is in its own tuple, and two mapped channels of one tuple
\* have the same tuple
ScoperGroupsByTemplate ==
    pc = <<>> =>
        /\ \A dest \in _dest_channels :
               \A g \in 1..Len(_proc_grouping) : \A k \in 1..Len(_proc_grouping[g]) :
                   Parse(_proc_grouping[g][k], dest) # NoName =>
                       /\ dest \in DOMAIN proc_groupings
                       /\ proc_groupings[dest] = FormattedTemplate(_proc_grouping[g], k, dest)
        /\ DOMAIN proc_groupings \subseteq _dest_channels
        /\ \A dest \in DOMAIN proc_groupings : dest \in Range(proc_groupings[dest])
        /\ \A d1, d2 \in DOMAIN proc_groupings :
               d2 \in Range(proc_groupings[d1]) => proc_groupings[d2] = proc_groupings[d1]

\* two channels of one core and a channel of another core are mapped, and a channel
\* that no pattern parses is left out
TwoChannelsOneCore ==
    /\ pc = <<>>
    /\ \E d1, d2, d3 \in DOMAIN proc_groupings :
           /\ d1 # d2
           /\ d2 \in Range(proc_groupings[d1])
           /\ proc_groupings[d3] # proc_groupings[d1]
    /\ _dest_channels # DOMAIN proc_groupings

-----------------------------------------------------------------------------
\* Barriers, holds and loops under Schedule

\* the instructions of the block Schedule is in, with instruction ii taken out
CurInstrRemoved ==
    [k \in 1..(Len(Block(nodes, cur).instructions) - 1) |->
        IF k < ii THEN Block(nodes, cur).instructions[k]
        ELSE Block(nodes, cur).instructions[k + 1]]

\* the step Schedule takes on a Barrier that it does not raise on
BarrierStepEffect ==
    LET scope == CurInstr.scope
        max_t == SetMax({cur_t[dest] : dest \in scope}
                        \cup {last_instr_end_t[OwnerCore(dest)] : dest \in scope})
    IN  /\ DOMAIN cur_t' = DOMAIN cur_t
        /\ \A dest \in scope : cur_t'[dest] = max_t
        /\ \A dest \in DOMAIN cur_t \ scope : cur_t'[dest] = cur_t[dest]
        /\ last_instr_end_t' = last_instr_end_t
        /\ Block(nodes', cur).instructions = CurInstrRemoved
        /\ ii' = ii

\* C24: on a Barrier, Schedule sets the cursor of every channel of the barrier's scope
\* to the maximum, over that scope, of the cursors and of the owning cores' last-issue
\* times, leaves every core's last-issue time and every other cursor as it was, and
\* takes the Barrier out of the block
BarrierStep ==
    [][(Scheduling /\ CurInstr.name = "barrier" /\ err' = "none") => BarrierStepEffect]_vars

\* the Barrier of the program has been taken out, having moved the cursors of its
\* scope up to the last-issue time of a core
BarrierRaisedCursor ==
    /\ Running("Schedule") /\ cur # NoName /\ err = "none"
    /\ \E k \in 1..Len(source) : source[k].name = "barrier" /\ source[k].qubit = {Q0}
    /\ \A k \in 1..Len(nodes) : \A j \in 1..Len(nodes[k].instructions) :
           nodes[k].instructions[j].name # "barrier"
    /\ \E d1, d2 \in DOMAIN cur_t :
           /\ d1 # d2 /\ ProcGroupOf(d1) = ProcGroupOf(d2)
           /\ ProcGroupOf(d1) \in DOMAIN last_instr_end_t
           /\ cur_t[d1] = cur_t[d2]
           /\ cur_t[d1] = last_instr_end_t[ProcGroupOf(d1)]
           /\ cur_t[d1] > start_nclks

\* the most statements of a program with holds
HoldSize == 3

\* the delays, in ns, that a program with holds is built from
HoldDelays == {12, 14, 16}

\* delays on the channels of Q0, whose rdlo channel is the reference channel of Q0.meas
HoldSimple == {[Delay(t, NoScope) EXCEPT !.qubit = {Q0}] : t \in HoldDelays}

\* branches on the measurement of Q0, taken by the core of Q1 or by both cores
HoldHeaders ==
    {BranchFproc("eq", IntOp(1), Chan(Q0, "meas"), {Q1}, <<>>, <<>>),
     BranchFproc("eq", IntOp(1), Chan(Q0, "meas"), {Q0, Q1}, <<>>, <<>>)}

InitHold ==
    \E program \in ProgsUpTo(HoldSimple, HoldHeaders, HoldSize) : InitWith(program, SchedPasses)

SpecHold == InitHold /\ [][NextSched]_vars

\* the step Schedule takes on a Hold that it does not raise on, a core being left
\* without idle when its last-issue time is idle_end at least (or, if strict, is past
\* idle_end)
HoldStepEffect(strict) ==
    LET idle_end == SetMax({cur_t[dest] : dest \in CurInstr.ref_chans}) + CurInstr.nclks
        cores == GetGroupsByDest(CurInstr.scope)
        dropped == {grp \in cores : IF strict THEN last_instr_end_t[grp] > idle_end
                                    ELSE last_instr_end_t[grp] >= idle_end}
        covered == cores \ dropped
    IN  /\ cur_t' = cur_t
        /\ DOMAIN last_instr_end_t' = DOMAIN last_instr_end_t
        /\ \A grp \in covered : last_instr_end_t'[grp] = idle_end + pulse_load_clks
        /\ \A grp \in DOMAIN last_instr_end_t \ covered :
               last_instr_end_t'[grp] = last_instr_end_t[grp]
        /\ IF covered = {}
           THEN Block(nodes', cur).instructions = CurInstrRemoved /\ ii' = ii
           ELSE /\ Block(nodes', cur).instructions =
                       [Block(nodes, cur).instructions EXCEPT
                           ![ii] = Idle(idle_end, UNION {Range(grp) : grp \in covered})]
                /\ ii' = ii + 1

\* on a Hold, Schedule leaves without idle only the cores whose last-issue time is
\* past idle_end
HoldStepExceeds ==
    [][(Scheduling /\ CurInstr.name = "hold" /\ err' = "none") => HoldStepEffect(TRUE)]_vars

\* C25: on a Hold, with idle_end the greatest cursor of the reference channels plus the
\* hold duration, Schedule leaves without idle the cores of the Hold's scope whose
\* last-issue time is idle_end or later, covers the other cores by one Idle(idle_end)
\* and sets their last-issue time to idle_end + pulse_load_clks; the Hold is taken out
\* when no core is covered
HoldStep ==
    [][(Scheduling /\ CurInstr.name = "hold" /\ err' = "none") => HoldStepEffect(FALSE)]_vars

\* a Hold on two cores has become an Idle on one of them, the last-issue time of the
\* other being the end of the idle
HoldDroppedAtIdleEnd ==
    /\ Running("Schedule") /\ cur # NoName /\ err = "none" /\ ii > 1
    /\ ii <= Len(Block(nodes, cur).instructions)
    /\ Block(nodes, cur).instructions[ii - 1].name = "idle"
    /\ CurInstr.name = "jump_fproc"
    /\ \E grp \in GetGroupsByDest(CurInstr.scope) :
           /\ Range(grp) \cap Block(nodes, cur).instructions[ii - 1].scope = {}
           /\ grp \in DOMAIN last_instr_end_t
           /\ last_instr_end_t[grp] = Block(nodes, cur).instructions[ii - 1].end_time

\* the blocks that follow block nm in the graph and no other block
OnlyAfter(es, nm) == {e[2] : e \in {x \in es : x[1] = nm /\ Predecessors(es, x[2]) = {nm}}}

\* C26: at the end of a block that closes a loop, Schedule reports the loop's start_time
\* as the exit time of every channel of the block's scope and as the last-issue time
\* of every core of that scope, and a block that follows this block only is entered
\* at the loop's start_time on those channels and cores
LoopCtrlReportsStart ==
    [][(ClosingLoop /\ err' = "none") =>
          LET b == Block(nodes, cur)
              start_time == loops[Last(b.instructions).jump_label].start_time
          IN  /\ Block(nodes', cur).block_end_t = [dest \in b.scope |-> start_time]
              /\ Block(nodes', cur).last_instr_end_t =
                     [grp \in GetGroupsByDest(b.scope) |-> start_time]
              /\ \A nxt \in OnlyAfter(edges, cur) :
                     /\ \A dest \in b.scope : EntryCurT(nodes', edges, nxt)[dest] = start_time
                     /\ \A grp \in GetGroupsByDest(b.scope) \cap
                                   GetGroupsByDest(Block(nodes, nxt).scope) :
                            EntryLastInstrEndT(nodes', edges, nxt)[grp] = start_time]_vars

\* a block after a loop is being scheduled from the loop's start_time, which the
\* loop's control block ended later than
AfterLoopFromStart ==
    /\ Running("Schedule") /\ cur # NoName /\ err = "none" /\ ii = 1
    /\ \E p \in Predecessors(edges, cur) :
           /\ Predecessors(edges, cur) = {p}
           /\ p \in done
           /\ EndsLoop(Block(nodes, p).instructions)
           /\ LET l == loops[Last(Block(nodes, p).instructions).jump_label]
              IN  /\ l.delta_t > 0
                  /\ \A dest \in Block(nodes, p).scope : cur_t[dest] = l.start_time
                  /\ \E grp \in DOMAIN last_instr_end_t : last_instr_end_t[grp] = l.start_time

\* the most statements of a program with a loop after other statements
LoopSize == 3

\* a pulse on a channel of Q1, and a barrier and a pulse on channels of Q0
LoopSimple ==
    {Pulse(Chan(Q1, "freq"), 0, MaxWidth, Chan(Q1, "qdrv")),
     Pulse(Chan(Q0, "freq"), 0, 2, Chan(Q0, "qdrv")),
     Barrier({Q0}, NoScope)}

\* a loop on the channels of Q0
LoopHeaders == {Loop(IntOp(1), "ge", "loopind", {Q0}, <<>>)}

InitLoop ==
    \E program \in ProgsUpTo(LoopSimple, LoopHeaders, LoopSize) : InitWith(program, SchedPasses)

SpecLoop == InitLoop /\ [][NextSched]_vars

\* C27: the Loop record that Schedule registers for a loop-start block is keyed by the
\* block's name and starts at the greatest entry time of the channels of that block's
\* scope, whatever the entry times of the other channels
LoopStartOverScope ==
    \A l \in DOMAIN loops :
        /\ loops[l].name = l
        /\ CheckNodenameLoopstart(l)
        /\ loops[l].scope = Block(nodes, l).scope
        /\ loops[l].start_time =
               SetMax({EntryCurT(nodes, edges, l)[dest] : dest \in Block(nodes, l).scope})

-----------------------------------------------------------------------------
\* The blocks MakeBasicBlocks forms

\* the instructions of the blocks, block after block
BlockInstructions(blocks) == Concat([k \in 1..Len(blocks) |-> blocks[k].instructions])

JumpNames == {"jump_fproc", "jump_cond", "jump_i"}

\* what MakeBasicBlocks makes of the flat program: the blocks, in the order of their
\* ind, hold the statements of the program in their order, none is empty, a jump is
\* alone in its block and a label is the first instruction of the block of its name
BlocksOf(flat, blocks) ==
    /\ BlockInstructions(blocks) = flat
    /\ \A k \in 1..Len(blocks) :
           /\ blocks[k].instructions # <<>>
           /\ \A j \in 1..Len(blocks[k].instructions) :
                  /\ blocks[k].instructions[j].name \in JumpNames =>
                         Len(blocks[k].instructions) = 1
                  /\ blocks[k].instructions[j].name = "jump_label" =>
                         j = 1 /\ blocks[k].name = blocks[k].instructions[j].label

\* C28: MakeBasicBlocks puts every jump alone in a control block right after the block
\* it ends and every label first in a block of its name, and leaves no empty block
\* and no jump or label elsewhere
JumpsAndLabelsIsolated ==
    [][(Running("MakeBasicBlocks") /\ Len(nodes) = 1) =>
          BlocksOf(nodes[1].instructions, SortByInd(nodes'))]_vars

-----------------------------------------------------------------------------
\* The edges GenerateCFG adds at jumps

\* the places, in the order of ind, of the blocks after place k that share a channel
\* with the block at place k
LaterSharing(blocks, k) ==
    {n \in (k + 1)..Len(blocks) : blocks[n].scope \cap blocks[k].scope # {}}

\* the edges of the block at place k of blocks, by the jump it ends in
JumpEdges(blocks, k) ==
    LET b == blocks[k]
        lasti == Last(b.instructions)
        out == {e[2] : e \in {x \in edges : x[1] = b.name}}
        falls == LaterSharing(blocks, k) # {} =>
                     blocks[CHOOSE n \in LaterSharing(blocks, k) :
                                \A m \in LaterSharing(blocks, k) : n <= m].name \in out
    IN  IF lasti.name = "jump_i" THEN out = {lasti.jump_label}
        ELSE IF lasti.name \in {"jump_fproc", "jump_cond"} /\ lasti.jump_type # "loopctrl"
        THEN lasti.jump_label \in out /\ falls
        ELSE IF lasti.name \in {"jump_fproc", "jump_cond"}
        THEN lasti.jump_label \notin out /\ falls
        ELSE TRUE

\* C29: in the generated graph a block that ends in JumpI has an edge to its jump
\* target and to no other block, a block that ends in a conditional jump that closes
\* no loop has an edge to its target and to the next block of its channels, and a
\* block that ends in a loop-control jump has no edge to its target
EdgesAtJumps ==
    pc = <<>> =>
        \A k \in 1..Len(nodes) : JumpEdges(SortByInd(nodes), k)

\* the graph of a program in which a block follows a JumpI that does not jump to it,
\* a conditional jump is followed by a block, and a loop is closed
JumpIFollowedByOther ==
    /\ pc = <<>> /\ err = "none"
    /\ LET blocks == SortByInd(nodes)
       IN  /\ \E k \in 1..(Len(blocks) - 1) :
                  /\ Last(blocks[k].instructions).name = "jump_i"
                  /\ Last(blocks[k].instructions).jump_label # blocks[k + 1].name
                  /\ blocks[k + 1].scope \cap blocks[k].scope # {}
           /\ \E k \in 1..Len(blocks) :
                  /\ Last(blocks[k].instructions).name = "jump_fproc"
                  /\ LaterSharing(blocks, k) # {}
           /\ \E k \in 1..Len(blocks) : EndsLoop(blocks[k].instructions)

-----------------------------------------------------------------------------
(* ResolveHWVirtualZ (passes.py) and the phase bindings of the IRProgram *)

BindPhase(v, fr) == [Blank EXCEPT !.name = "bind_phase", !.var = v, !.freq = fr]

\* IRProgram.register_phase_binding: the frequency is bound to the variable
RegisterPhaseBinding(bs, freq, var) == Put(bs, freq, var)

\* IRProgram.bound_zphase_freqs
BoundZphaseFreqs(bs) == DOMAIN bs

\* IRProgram.get_zphase_var
GetZphaseVar(bs, freq) == bs[freq]

\* HWVirtualZInstr with the pulses left as they are
HWVirtualZInstrPulsesKept(instr, bs, vs) ==
    LET R(e, b, o) == [err |-> e, bindings |-> b, out |-> o]
    IN  IF instr.name = "bind_phase" THEN
          IF instr.var \notin DOMAIN vs
          THEN R("KeyError", RegisterPhaseBinding(bs, instr.freq, instr.var), instr)
          ELSE R("none", RegisterPhaseBinding(bs, instr.freq, instr.var),
                 [SetVar(0, instr.var, vs[instr.var].scope) EXCEPT !.scope_is = instr.var])
        ELSE IF instr.name = "virtual_z" /\ instr.freq \in BoundZphaseFreqs(bs) THEN
          LET var == GetZphaseVar(bs, instr.freq)
          IN  IF instr.scope # NoScope /\ ~(instr.scope \subseteq vs[var].scope)
              THEN R("AssertionError", bs, instr)
              ELSE R("none", bs, [Alu("add", instr.phase, var, var, vs[var].scope)
                                     EXCEPT !.scope_is = var])
        ELSE IF IsGate(instr) THEN R("Exception", bs, instr)
        ELSE R("none", bs, instr)

\* the body of the while loop of ResolveHWVirtualZ.run_pass for one instruction: the
\* exception raised, the bindings after it, and what instructions[i] is replaced by;
\* the scope of a new SetVar or Alu is the scope set of the bound variable itself
HWVirtualZInstr(instr, bs, vs) ==
    LET R(e, b, o) == [err |-> e, bindings |-> b, out |-> o]
    IN  IF instr.name = "bind_phase" THEN
          IF instr.var \notin DOMAIN vs
          THEN R("KeyError", RegisterPhaseBinding(bs, instr.freq, instr.var), instr)
          ELSE R("none", RegisterPhaseBinding(bs, instr.freq, instr.var),
                 [SetVar(0, instr.var, vs[instr.var].scope) EXCEPT !.scope_is = instr.var])
        ELSE IF instr.name = "virtual_z" /\ instr.freq \in BoundZphaseFreqs(bs) THEN
          LET var == GetZphaseVar(bs, instr.freq)
          IN  IF instr.scope # NoScope /\ ~(instr.scope \subseteq vs[var].scope)
              THEN R("AssertionError", bs, instr)
              ELSE R("none", bs, [Alu("add", instr.phase, var, var, vs[var].scope)
                                     EXCEPT !.scope_is = var])
        ELSE IF instr.name = "pulse" /\ instr.freq \in BoundZphaseFreqs(bs) THEN
          R("none", bs, [instr EXCEPT !.phase = VarOp(GetZphaseVar(bs, instr.freq))])
        ELSE IF IsGate(instr) THEN R("Exception", bs, instr)
        ELSE R("none", bs, instr)

RECURSIVE HWVirtualZFrom(_, _, _, _)
\* the while loop over the instructions of one block, from instruction i on
HWVirtualZFrom(instructions, i, bs, vs) ==
    IF i > Len(instructions) THEN [err |-> "none", bindings |-> bs, instructions |-> instructions]
    ELSE LET r == HWVirtualZInstr(instructions[i], bs, vs)
         IN  IF r.err # "none"
             THEN [err |-> r.err, bindings |-> r.bindings, instructions |-> instructions]
             ELSE HWVirtualZFrom([instructions EXCEPT ![i] = r.out], i + 1, r.bindings, vs)

\* ResolveHWVirtualZ.run_pass, one block
ResolveHWVirtualZStep(nm) ==
    /\ Running("ResolveHWVirtualZ")
    /\ NextInTopologicalSort(nm)
    /\ LET r == HWVirtualZFrom(Block(nodes, nm).instructions, 1, hw_zphase_bindings, _vars)
       IN  IF r.err # "none" THEN Raise(r.err)
           ELSE /\ nodes' = [nodes EXCEPT ![NodeIndex(nodes, nm)].instructions = r.instructions]
                /\ hw_zphase_bindings' = r.bindings
                /\ done' = done \cup {nm}
                /\ UNCHANGED <<pc, edges, loops, cur, ii, cur_t, last_instr_end_t, asm, err,
                               _vars, _freqs, source, file, loaded, _dest_channels,
                               _proc_grouping, proc_groupings>>

ResolveHWVirtualZDone ==
    /\ Running("ResolveHWVirtualZ")
    /\ TopologicalSortDone
    /\ pc' = Tail(pc)
    /\ done' = {}
    /\ UNCHANGED <<nodes, edges, loops, cur, ii, cur_t, last_instr_end_t, asm, err, _vars,
                   _freqs, source, file, loaded, _dest_channels, _proc_grouping,
                   proc_groupings, hw_zphase_bindings>>

\* the most statements of a program with phase bindings
HWSize == 4

\* the statements of test_hw_virtualz
HWSimple ==
    {Declare("q0_phase", {Q0}), BindPhase("q0_phase", Chan(Q0, "freq")),
     Gate("X90", Q0, 2), Gate("X90", Q1, 2), VirtualZ(Q0, 1), VirtualZ(Q1, 1)}

HWHeaders == {BranchFproc("eq", IntOp(1), Chan(Q0, "meas"), {Q0}, <<>>, <<>>)}

HWPasses ==
    <<"FlattenProgram", "MakeBasicBlocks", "ScopeProgram", "RegisterVarsAndFreqs",
      "ResolveGates", "GenerateCFG", "ResolveHWVirtualZ">>

InitHW == \E program \in ProgsUpTo(HWSimple, HWHeaders, HWSize) : InitWith(program, HWPasses)

NextHW ==
    \/ FlattenProgram
    \/ MakeBasicBlocks
    \/ ScopeProgram
    \/ RegisterVarsAndFreqs
    \/ ResolveGates
    \/ GenerateCFG
    \/ \E nm \in NodeNames(nodes) : ResolveHWVirtualZStep(nm)
    \/ ResolveHWVirtualZDone

SpecHW == InitHW /\ [][NextHW]_vars

\* the variable frequency f is bound to when instruction i of the block with these
\* instructions is reached ("None" when it is not bound): the variable of the last
\* BindPhase of f before i in the block or, without one, of the blocks resolved before
BoundVarAt(instructions, i, f) ==
    LET binds == {j \in 1..(i - 1) :
                     instructions[j].name = "bind_phase" /\ instructions[j].freq = f}
    IN  IF binds # {} THEN instructions[SetMax(binds)].var
        ELSE IF f \in DOMAIN hw_zphase_bindings THEN hw_zphase_bindings[f]
        ELSE "None"

\* what ResolveHWVirtualZ makes of the instructions old of a block
HWResolved(old, new) ==
    /\ Len(new) = Len(old)
    /\ \A i \in 1..Len(old) :
           LET var == BoundVarAt(old, i, old[i].freq)
           IN  IF old[i].name = "bind_phase"
               THEN new[i].name = "set_var" /\ new[i].lhs = IntOp(0) /\ new[i].var = old[i].var
               ELSE IF old[i].name = "virtual_z" /\ var # "None"
               THEN /\ new[i].name = "alu" /\ new[i].op = "add"
                    /\ new[i].lhs = old[i].phase /\ new[i].rhs = var /\ new[i].out = var
               ELSE IF old[i].name = "pulse" /\ var # "None"
               THEN new[i] = [old[i] EXCEPT !.phase = VarOp(var)]
               ELSE new[i] = old[i]

AllInstructions(ns) == UNION {Range(ns[k].instructions) : k \in 1..Len(ns)}

\* C30: ResolveHWVirtualZ replaces each BindPhase by a SetVar of 0 to the bound
\* variable, each VirtualZ on a frequency bound before it by an Alu that adds the phase
\* increment to the bound variable, and the phase of each Pulse on a frequency bound
\* before it by the bound variable; it leaves every other instruction as it was, and no
\* BindPhase is left after the pass
HWVirtualZResolved ==
    /\ [][(Running("ResolveHWVirtualZ") /\ pc' = pc /\ done' # done /\ err' = "none") =>
             LET nm == CHOOSE n \in done' \ done : TRUE
             IN  /\ HWResolved(Block(nodes, nm).instructions, Block(nodes', nm).instructions)
                 /\ \A n \in NodeNames(nodes) \ {nm} : Block(nodes', n) = Block(nodes, n)]_vars
    /\ []((pc = <<>> /\ err = "none") =>
             \A instr \in AllInstructions(nodes) : instr.name # "bind_phase")

\* a program has been resolved in which a frequency was bound, and a VirtualZ and a
\* pulse on that frequency followed the binding
BoundPhaseResolved ==
    /\ pc = <<>> /\ err = "none"
    /\ hw_zphase_bindings # <<>>
    /\ \E k \in 1..Len(nodes) : \E a, b, c \in 1..Len(nodes[k].instructions) :
           /\ a < b /\ b < c
           /\ nodes[k].instructions[a].name = "set_var"
           /\ nodes[k].instructions[b].name = "alu"
           /\ nodes[k].instructions[c].name = "pulse"
           /\ nodes[k].instructions[c].phase = VarOp(nodes[k].instructions[a].var)

-----------------------------------------------------------------------------
(* Hardware-bound frequencies under the software folding of ResolveVirtualZ *)

\* the most statements of a program that is resolved by both virtual-Z passes
BothSize == 4

\* the passes of test_hw_virtualz up to the software folding
BothPasses == HWPasses \o <<"ResolveVirtualZ">>

\* the statements of test_hw_virtualz on the bound qubit
BothSimple ==
    {Declare("q0_phase", {Q0}), BindPhase("q0_phase", Chan(Q0, "freq")),
     Gate("X90", Q0, 2), VirtualZ(Q0, 1)}

InitBoth ==
    \E program \in ProgsUpTo(BothSimple, HWHeaders, BothSize) : InitWith(program, BothPasses)

NextBoth ==
    \/ NextHW
    \/ \E nm \in NodeNames(nodes) : ResolveVirtualZStep(nm)
    \/ ResolveVirtualZDone

SpecBoth == InitBoth /\ [][NextBoth]_vars

\* the software pass, resolving the block nm, meets no VirtualZ of a bound frequency
\* and leaves every pulse whose phase is a bound variable as it is
BoundLeftAlone(nm) ==
    LET old == Block(nodes, nm).instructions
    IN  /\ \A i \in 1..Len(old) :
               old[i].name = "virtual_z" => old[i].freq \notin BoundZphaseFreqs(hw_zphase_bindings)
        /\ err' # "TypeError"
        /\ \A i \in 1..Len(old) :
               (old[i].name = "pulse" /\ old[i].phase.isvar) =>
                   old[i] \in Range(Block(nodes', nm).instructions)

\* C31: run after ResolveHWVirtualZ, ResolveVirtualZ folds no VirtualZ of a frequency
\* that a BindPhase bound and adds no accumulated phase to a pulse whose phase is the
\* bound variable, wherever the BindPhase sits in the program
BoundExcludedFromFolding ==
    [][\A nm \in NodeNames(nodes) : ResolveVirtualZStep(nm) => BoundLeftAlone(nm)]_vars

-----------------------------------------------------------------------------
\* The order of the blocks by ind

RECURSIVE FirstAt(_, _, _)
\* the first place from place from on where the sequence seq occurs in flat, 0 if none
FirstAt(flat, from, seq) ==
    IF from + Len(seq) - 1 > Len(flat) THEN 0
    ELSE IF SubSeq(flat, from, from + Len(seq) - 1) = seq THEN from
    ELSE FirstAt(flat, from + 1, seq)

RECURSIVE InFlatOrder(_, _, _, _)
\* the blocks from place k on occur in flat from place from on, one after the other
InFlatOrder(flat, from, blocks, k) ==
    IF k > Len(blocks) THEN TRUE
    ELSE LET p == FirstAt(flat, from, blocks[k].instructions)
         IN  p # 0 /\ InFlatOrder(flat, p + Len(blocks[k].instructions), blocks, k + 1)

\* ind grows from each block to the next (strictly, or by zero or more)
IndIncreasing(blocks, strictly) ==
    \A k \in 1..(Len(blocks) - 1) :
        IF strictly THEN blocks[k].ind < blocks[k + 1].ind
        ELSE blocks[k].ind <= blocks[k + 1].ind

\* blocks of equal ind: the block a JumpLabel closes and the block of that label
EqualIndAtLabels(blocks) ==
    \A k \in 1..(Len(blocks) - 1) :
        blocks[k].ind = blocks[k + 1].ind =>
            blocks[k + 1].instructions[1].name = "jump_label"

NoneLost(flat, blocks) == Len(BlockInstructions(blocks)) = Len(flat)

-----------------------------------------------------------------------------
\* The times of a loop's body against the loop's start

\* the most statements of a program whose loop follows pulses on both qubits
LoopBodySize == 4

InitLoopBody ==
    \E program \in ProgsUpTo(LoopSimple, LoopHeaders, LoopBodySize) :
        InitWith(program, SchedPasses)

SpecLoopBody == InitLoopBody /\ [][NextSched]_vars

\* Schedule has run to its end
Scheduled == "Schedule" \notin Range(pc) /\ err = "none"

\* the blocks from the loop-start block l to the control block of the loop, in the
\* order of blocknames_by_ind
LoopBlocks(l) ==
    LET blocks == SortByInd(nodes)
    IN  {blocks[k] : k \in {x \in 1..Len(blocks) :
            /\ NodeIndex(blocks, l) <= x
            /\ \E c \in x..Len(blocks) :
                   /\ EndsLoop(blocks[c].instructions)
                   /\ Last(blocks[c].instructions).jump_label = l}}

\* C33: after Schedule the delta_t of every loop is non-negative, and every pulse of
\* the blocks from the loop-start block to the loop-control block starts, and every
\* idle of them ends, no earlier than the loop's start_time
LoopBodyAfterStart ==
    Scheduled =>
        \A l \in DOMAIN loops :
            /\ loops[l].delta_t >= 0
            /\ \A b \in LoopBlocks(l) : \A j \in 1..Len(b.instructions) :
                   LET instr == b.instructions[j]
                   IN  /\ instr.name = "pulse" => instr.start_time >= loops[l].start_time
                       /\ instr.name = "idle" => instr.end_time >= loops[l].start_time

-----------------------------------------------------------------------------
\* Pulses of one channel along the paths of the control-flow graph

\* the most statements of a program of pulses and branches
PathSize == 4

\* a pulse on Q0.qdrv that lasts longer than it takes to load
PathSimple == {Pulse(Chan(Q0, "freq"), 0, MaxWidth, Chan(Q0, "qdrv"))}

\* branches taken by the core of Q0 or by the core of Q1
PathHeaders ==
    {BranchFproc("eq", IntOp(1), Chan(Q0, "meas"), {Q0}, <<>>, <<>>),
     BranchFproc("eq", IntOp(1), Chan(Q0, "meas"), {Q1}, <<>>, <<>>)}

RECURSIVE PulseCount(_)
\* the number of pulses of a program, those of the arms of its branches included
PulseCount(program) ==
    IF program = <<>> THEN 0
    ELSE (IF Head(program).name = "pulse" THEN 1
          ELSE PulseCount(Head(program).true) + PulseCount(Head(program).false))
         + PulseCount(Tail(program))

\* the passes of the compiler up to Schedule
PathPasses ==
    <<"FlattenProgram", "MakeBasicBlocks", "ScopeProgram", "GenerateCFG",
      "ResolveFPROCChannels", "Schedule">>

\* the programs that hold two pulses at least
InitPath ==
    \E program \in {p \in ProgsUpTo(PathSimple, PathHeaders, PathSize) : PulseCount(p) >= 2} :
        InitWith(program, PathPasses)

NextPath ==
    \/ FlattenProgram
    \/ MakeBasicBlocks
    \/ ScopeProgram
    \/ GenerateCFG
    \/ ResolveFPROCChannels
    \/ \E nm \in NodeNames(nodes) : ScheduleBlockStart(nm)
    \/ ScheduleStep
    \/ ScheduleBlockEnd
    \/ ScheduleDone

SpecPath == InitPath /\ [][NextPath]_vars

RECURSIVE EdgeClosure(_)
\* the blocks a path of the control-flow graph leads to from the blocks S
EdgeClosure(S) ==
    LET T == S \cup {e[2] : e \in {x \in edges : x[1] \in S}}
    IN  IF T = S THEN S ELSE EdgeClosure(T)

\* the places <<block, index>> of the pulses of the program
PulsePlaces ==
    {kj \in UNION {{<<k, j>> : j \in 1..Len(nodes[k].instructions)} : k \in 1..Len(nodes)} :
        nodes[kj[1]].instructions[kj[2]].name = "pulse"}

\* the pulse at place a comes before the pulse at place b: earlier in the same block,
\* or in a block from which a path of the control-flow graph leads to the block of b
ComesBefore(a, b) ==
    IF a[1] = b[1] THEN a[2] < b[2]
    ELSE nodes[b[1]].name \in EdgeClosure({nodes[a[1]].name})

\* C34: after Schedule on a program without loops, of two pulses on the same channel
\* the one that comes later on a path of the control-flow graph starts no earlier than
\* the start of the first plus the first's duration in clock cycles
PulsesNeverOverlap ==
    (Scheduled /\ loops = <<>>) =>
        \A a, b \in PulsePlaces :
            LET p == nodes[a[1]].instructions[a[2]]
                q == nodes[b[1]].instructions[b[2]]
            IN  (p.dest = q.dest /\ ComesBefore(a, b)) =>
                    q.start_time >= p.start_time + GetPulseNclks(p.twidth)

\* a program has been scheduled in which a pulse after the join of a branch follows
\* pulses on its channel in a block before the branch and in an arm of the branch
PulseAfterJoin ==
    /\ Scheduled /\ loops = <<>>
    /\ \E a, b, c \in PulsePlaces :
           /\ a[1] # b[1] /\ b[1] # c[1] /\ a[1] # c[1]
           /\ nodes[a[1]].instructions[a[2]].dest = nodes[c[1]].instructions[c[2]].dest
           /\ nodes[b[1]].instructions[b[2]].dest = nodes[c[1]].instructions[c[2]].dest
           /\ ComesBefore(a, b) /\ ComesBefore(b, c)
           /\ Cardinality(Predecessors(edges, nodes[c[1]].name)) >= 2

-----------------------------------------------------------------------------
\* The phases of the paths that join at a block

\* the phase of frequency f accumulated at the end of block p, 0 for a frequency that
\* no VirtualZ touched on the way to the end of p
EndingZPhase(p, f) ==
    IF f \in DOMAIN Block(nodes, p).ending_zphases THEN Block(nodes, p).ending_zphases[f]
    ELSE 0

\* the frequencies some block has accumulated a phase of
PhasedFreqs == UNION {DOMAIN nodes[k].ending_zphases : k \in 1..Len(nodes)}

\* the paths that join at block nm bring the same phase of every frequency
PathsAgree(nm) ==
    \A p, q \in Predecessors(edges, nm) : \A f \in PhasedFreqs :
        EndingZPhase(p, f) = EndingZPhase(q, f)

\* C35: ResolveVirtualZ folds a block without error only if every path of the
\* control-flow graph to it has accumulated the same phase of every frequency, a
\* frequency untouched on a path counting as 0: the phase of a VirtualZ in one arm of a
\* branch only is not added to the pulses after the join
PathPhasesAgree ==
    [][\A nm \in NodeNames(nodes) :
           (ResolveVirtualZStep(nm) /\ err' = "none") => PathsAgree(nm)]_vars

-----------------------------------------------------------------------------
\* Execution of a program of branches and of its flattened form

\* the most statements of a program that is executed
RunSize == 4

RunSimple ==
    {Pulse(Chan(Q0, "freq"), 0, 2, Chan(Q0, "qdrv")),
     Pulse(Chan(Q1, "freq"), 0, 2, Chan(Q1, "qdrv"))}

\* branches whose condition holds (cond_lhs 1) and does not hold (cond_lhs 0): the
\* flattener copies cond_lhs from the branch to the jump, so the jump of a branch has
\* the outcome of the branch
RunHeaders ==
    {BranchFproc("eq", IntOp(b), Chan(Q0, "meas"), {Q0}, <<>>, <<>>) : b \in {0, 1}}

\* the outcome of the condition of a branch or of a conditional jump
Outcome(instr) == instr.cond_lhs.ival = 1

InitRun ==
    \E program \in ProgsUpTo(RunSimple, RunHeaders, RunSize) :
        InitWith(program, <<"FlattenProgram">>)

SpecRun == InitRun /\ [][NextFlat]_vars

RECURSIVE StructuredVisits(_)
\* the simple instructions the structured program visits: of a branch the true
\* sub-sequence when its condition holds, the false one otherwise
StructuredVisits(program) ==
    IF program = <<>> THEN <<>>
    ELSE LET s == Head(program)
         IN  (IF s.name \in {"branch_fproc", "branch_var"}
              THEN (IF Outcome(s) THEN StructuredVisits(s.true) ELSE StructuredVisits(s.false))
              ELSE <<s>>)
             \o StructuredVisits(Tail(program))

\* the places of the flat program labelled l
LabelPlaces(flat, l) == {k \in 1..Len(flat) : flat[k].name = "jump_label" /\ flat[k].label = l}

\* the place a jump to l goes to: of several places labelled l the first or the last
Target(flat, l, first) ==
    CHOOSE k \in LabelPlaces(flat, l) :
        \A j \in LabelPlaces(flat, l) : IF first THEN k <= j ELSE k >= j

\* the mark of an execution that went astray
Astray == [Blank EXCEPT !.name = "astray"]

RECURSIVE FlatVisits(_, _, _, _)
\* the simple instructions the flat program visits from place k on, falling through on
\* a condition that does not hold and jumping on one that holds and on a JumpI; an
\* execution of more than fuel steps, or a jump to a label that is nowhere, ends in
\* the mark Astray
FlatVisits(flat, k, fuel, first) ==
    IF k > Len(flat) THEN <<>>
    ELSE IF fuel = 0 THEN <<Astray>>
    ELSE LET instr == flat[k]
             jumps == \/ instr.name = "jump_i"
                      \/ instr.name \in {"jump_fproc", "jump_cond"} /\ Outcome(instr)
         IN  IF jumps
             THEN IF LabelPlaces(flat, instr.jump_label) = {} THEN <<Astray>>
                  ELSE FlatVisits(flat, Target(flat, instr.jump_label, first), fuel - 1, first)
             ELSE IF instr.name \in {"jump_fproc", "jump_cond", "jump_label"}
             THEN FlatVisits(flat, k + 1, fuel - 1, first)
             ELSE <<instr>> \o FlatVisits(flat, k + 1, fuel - 1, first)

\* C36: whatever the outcomes of its branch conditions, the flattened program visits
\* the simple instructions the structured program visits, in the same order
FlatExecutesStructured ==
    [][Running("FlattenProgram") =>
          \A first \in BOOLEAN :
              FlatVisits(nodes'[1].instructions, 1, 2 * Len(nodes'[1].instructions), first)
                  = StructuredVisits(nodes[1].instructions)]_vars

-----------------------------------------------------------------------------
\* The instructions of the blocks against the flattened program

\* C37: MakeBasicBlocks neither loses nor duplicates an instruction: the instructions
\* of the blocks, in the order of the blocks, are the flattened program it was given
BlocksKeepInstructions ==
    [][(Running("MakeBasicBlocks") /\ err' = "none") =>
          BlockInstructions(SortByInd(nodes')) = nodes[1].instructions]_vars

-----------------------------------------------------------------------------
\* Blocks without instructions

\* C38: after every pass from MakeBasicBlocks onward every block holds an
\* instruction, and no pass reads the last instruction of a block that has none
BlocksNeverEmpty ==
    [][(pc' # pc /\ ~Running("FlattenProgram")) =>
          /\ err' # "IndexError"
          /\ \A k \in 1..Len(nodes') : nodes'[k].instructions # <<>>]_vars

-----------------------------------------------------------------------------
\* The streams of the cores against the flattened program

\* the statements the flattened program gives the stream of core grp, taken in the
\* order of the flattened program
FlatLowered(flat, grp, ls) ==
    Concat([k \in 1..Len(flat) |->
               IF grp \in GetGroupsByDest(ScopeInstr(flat[k]).scope \ NoScope)
               THEN LowerInstr(flat[k], ls) ELSE <<>>])

\* the stream of core grp without its phase_reset and done_stb
StreamBody(grp) == SubSeq(asm[grp], 2, Len(asm[grp]) - 1)


\* the most statements of a program whose streams are compared with its flattened form
StreamSize == 4

StreamHeaders == {BranchFproc("eq", IntOp(1), Chan(Q0, "meas"), {Q0}, <<>>, <<>>)}

InitStream ==
    \E program \in ProgsUpTo({}, StreamHeaders, StreamSize) :
        InitWith(program, SchedPasses)

SpecStream == InitStream /\ [][NextSched]_vars

RECURSIVE IsSubsequence(_, _)
\* the statements of s are statements of t, in the order they have in t
IsSubsequence(s, t) ==
    IF s = <<>> THEN TRUE
    ELSE IF t = <<>> THEN FALSE
    ELSE IF Head(s) = Head(t) THEN IsSubsequence(Tail(s), Tail(t))
    ELSE IsSubsequence(s, Tail(t))

\* the statement after a branch's conditional jump is, in the stream, the one after it
\* in the flattened program: the first of the false sub-sequence
FallsIntoFalse(stream, lowered) ==
    \A i \in 1..Len(stream) :
        (stream[i].op = "jump_fproc" \/
         (stream[i].op = "jump_cond" /\ Last(stream[i].label) # "loopctrl")) =>
            \A j \in 1..Len(lowered) :
                lowered[j] = stream[i] =>
                    /\ i < Len(stream) /\ j < Len(lowered)
                    /\ stream[i + 1] = lowered[j + 1]

\* C39: whichever topological order is walked, the stream of every core has its
\* statements in the order of the flattened program, so that a conditional jump is
\* followed by the first statement of its false sub-sequence and a label comes before
\* the statements it labels
StreamsInFlatOrder ==
    Compiled =>
        \A grp \in DOMAIN asm :
            LET lowered == FlatLowered(FlattenControlFlow(source), grp, loops)
            IN  /\ IsSubsequence(StreamBody(grp), lowered)
                /\ FallsIntoFalse(StreamBody(grp), lowered)

=============================================================================
